---- MODULE Spec2Model ----
(***************************************************************************)
(* A model of the media validation scripts validate_media.py (worker pool, *)
(* called "pool" below), validate_media_single.py (sequential, "single")   *)
(* and validate_media_log.py (the oldest revision, "log").                 *)
(*                                                                         *)
(* A file name is kept in the structured form                              *)
(*      (tag1)(tag2)...base_n1_n2... .ext                                  *)
(* as a record [tags, base, nums, ext]: the code builds names only by      *)
(* putting an "(oldext)" tag in front of the stem, by appending "_k" to    *)
(* the stem and by replacing the extension.  ext is the text after the     *)
(* last dot, "" when pathlib's suffix is empty.                            *)
(* A path is [dir, name]; dir is the sequence of directory names below     *)
(* base_dir.  The filesystem fs maps each existing path to the file found  *)
(* there: [c |-> what its bytes are, id |-> which file it is].             *)
(***************************************************************************)
EXTENDS Integers, Sequences, FiniteSets, TLC

VARIABLES
    rev,             \* which script runs: "pool", "single" or "log"
    mode,            \* "json" (rename_media_files), "cleanup"
                     \* (cleanup_directory) or "deps" (main was called with -p)
    move_mode,       \* -m was given
    ffprobe,         \* shutil.which("ffprobe") is not None
    pillow,          \* import PIL succeeds
    cv2,             \* import cv2 succeeds
    target_found,    \* json_path.exists(), or with -c: cleanup_dir.exists()
                     \* and cleanup_dir.is_dir()
    manifest,        \* the Media entries of the JSON file, in order
    fs,              \* the files on disk
    dirs,            \* the directories below base_dir that exist
    tasks,           \* the collected (old_path, file_name) pairs
    idx,             \* index of the task the loop is at
    pc,              \* where the orchestrator is; "done": the loop is over
                     \* and main() logs the run time and returns
    old_path,        \* the loop variable old_path / file_path
    check_result,    \* what is_valid_media returned: "True", "False", "None"
    valid_count,
    invalid_count,
    skipped_timeout,
    deleted_count,
    hung,            \* pool workers occupied by a check that never returns
    faults,          \* OS errors injected into filesystem operations so far
    outcome,         \* per task: how the loop body left it
    calls,           \* per task: how often detect_media_and_normalize_suffix,
                     \* is_valid_media and ffprobe ran, and whether a check
                     \* of it could not complete (indet)
    last_op,         \* the filesystem operation the last step attempted
    jobs             \* validate_media.py: the calls handed to the Pool with
                     \* apply_async, one record each, in submission order

vars == <<rev, mode, move_mode, ffprobe, pillow, cv2, target_found, manifest, fs, dirs, tasks, idx, pc,
          old_path, check_result, valid_count, invalid_count, skipped_timeout,
          deleted_count, hung, faults, outcome, calls, last_op, jobs>>

----------------------------------------------------------------------------
(* Bounds of the model *)

MaxTasks == 2

MaxObstacles == 1

MaxFaults == 1

MaxApply == 2

MaxDupTasks == 3

CpuCount == 1

(* Program constants *)

MAX_WORKERS == 4

HEIC_SUPPORTED == FALSE

----------------------------------------------------------------------------
(* Names and paths *)

Nm(base, ext) == [tags |-> <<>>, base |-> base, nums |-> <<>>, ext |-> ext]

BaseDir == <<>>

P(dir, name) == [dir |-> dir, name |-> name]

\* A FileName of the manifest may hold directory parts before the name
\* ("../photo.jpg", "sub/photo.jpg"): they are kept in a field parts
PathParts(name) == IF "parts" \in DOMAIN name THEN name.parts ELSE <<>>

\* the last component of a name
BaseName(name) == [tags |-> name.tags, base |-> name.base,
                   nums |-> name.nums, ext |-> name.ext]

RECURSIVE Walk(_, _)
\* where the operating system ends when it follows parts from dir; above
\* base_dir is <<"..">>
Walk(dir, parts) ==
    IF parts = <<>> THEN dir
    ELSE IF Head(parts) = ".."
         THEN Walk(IF dir = <<>> THEN <<"..">>
                   ELSE SubSeq(dir, 1, Len(dir) - 1), Tail(parts))
         ELSE Walk(Append(dir, Head(parts)), Tail(parts))

\* dir / name
Join(dir, name) == P(Walk(dir, PathParts(name)), BaseName(name))

\* str.lower() on the extensions the model uses
Lower(s) ==
    CASE s = "JPG" -> "jpg"
      [] s = "MP4" -> "mp4"
      [] OTHER -> s

\* path.suffix, without its dot
Suffix(p) == p.name.ext

\* path.with_name(name)
WithName(p, name) == [p EXCEPT !.name = name]

\* f"({old_ext_clean}){stem}{new_ext}"
TaggedName(old_ext_clean, stemOf, new_ext) ==
    [tags |-> <<old_ext_clean>> \o stemOf.tags, base |-> stemOf.base,
     nums |-> stemOf.nums, ext |-> new_ext]

\* f"{stem}_{counter}{suffix}" in path.parent
Candidate(p, counter) == [p EXCEPT !.name.nums = Append(@, counter)]

Exists(F, p) == p \in DOMAIN F

NoPath == P(<<>>, Nm("", ""))

----------------------------------------------------------------------------
(* The filesystem *)

\* os.rename / shutil.move on one filesystem: dst is replaced if it exists
Rename(F, src, dst) ==
    [q \in (DOMAIN F \ {src}) \cup {dst} |-> IF q = dst THEN F[src] ELSE F[q]]

\* Path.unlink
Unlink(F, p) == [q \in DOMAIN F \ {p} |-> F[q]]

\* an attempted operation: want is the path handed to next_free_name, dst
\* the path the file is renamed or moved to
NoOp == [kind |-> "none", src |-> NoPath, want |-> NoPath, dst |-> NoPath,
         ok |-> TRUE]

\* path.rename(dst) or shutil.move(src, dst): it raises when the source is
\* gone, when the directory of dst does not exist, or on an OS error (oserr)
MoveOk(F, D, src, dst, oserr) == Exists(F, src) /\ dst.dir \in D /\ ~oserr

MoveOp(kind, F, D, src, want, dst, oserr) ==
    [kind |-> kind, src |-> src, want |-> want, dst |-> dst,
     ok |-> MoveOk(F, D, src, dst, oserr)]

\* a variant in which a move that fails loses the file
MoveFs_lossy(F, D, src, dst, oserr) ==
    IF MoveOk(F, D, src, dst, oserr) THEN Rename(F, src, dst)
    ELSE IF Exists(F, src) THEN Unlink(F, src) ELSE F

MoveFs(F, D, src, dst, oserr) ==
    IF MoveOk(F, D, src, dst, oserr) THEN Rename(F, src, dst) ELSE F

UnlinkOk(F, p, oserr) == Exists(F, p) /\ ~oserr

UnlinkOp(F, p, oserr) ==
    [kind |-> "unlink", src |-> p, want |-> NoPath, dst |-> NoPath,
     ok |-> UnlinkOk(F, p, oserr)]

UnlinkFs(F, p, oserr) == IF UnlinkOk(F, p, oserr) THEN Unlink(F, p) ELSE F

----------------------------------------------------------------------------
(* The decoding capabilities: Pillow and ffprobe, as the scripts see them.  *)
(* What a file's bytes are is one of:                                       *)
(*   jpeg_ok   a JPEG that decodes          png_ok   a PNG that decodes     *)
(*   jpeg_bad  JPEG header, payload raises  png_hang PNG whose decode hangs *)
(*   ico_ok    an image format Pillow knows but the scripts do not map      *)
(*   vid_ok    a video ffprobe accepts      vid_bad  ffprobe exits non-zero *)
(*   vid_empty ffprobe exits 0, no streams  vid_hang ffprobe never returns  *)
(*   tiff_ok   a TIFF that decodes                                          *)
(*   junk      neither                                                      *)

Contents == {"jpeg_ok", "png_ok", "jpeg_bad", "png_hang", "ico_ok", "ico_bad",
             "tiff_ok",
             "vid_ok", "vid_bad", "vid_empty", "vid_hang", "vid_garbled",
             "vid_noexec", "junk"}

\* Image.open(path).format; "NONE" when Image.open raises
PillowFormat(c) ==
    CASE c \in {"jpeg_ok", "jpeg_bad"} -> "JPEG"
      [] c \in {"png_ok", "png_hang"} -> "PNG"
      [] c \in {"ico_ok", "ico_bad"} -> "ICO"
      [] c = "tiff_ok" -> "TIFF"
      [] OTHER -> "NONE"

\* img.load(): "ok", "raise" or "hang"
PillowLoad(c) ==
    CASE c \in {"jpeg_ok", "png_ok", "ico_ok", "tiff_ok"} -> "ok"
      [] c = "png_hang" -> "hang"
      [] OTHER -> "raise"

\* subprocess.run(ffprobe ...): "ok" (exit 0, a stream listed), "rc" (exit
\* status not 0), "empty" (exit 0, no stream), "garbled" (exit 0, stdout is
\* not JSON), "timeout" (TimeoutExpired), "raise" (another exception)
FfprobeRun(F, p) ==
    IF ~Exists(F, p) THEN "rc"
    ELSE CASE F[p].c = "vid_ok" -> "ok"
           [] F[p].c = "vid_empty" -> "empty"
           [] F[p].c = "vid_garbled" -> "garbled"
           [] F[p].c = "vid_hang" -> "timeout"
           [] F[p].c = "vid_noexec" -> "raise"
           [] OTHER -> "rc"

has_ffprobe == ffprobe

\* a variant that takes an expired deadline for a broken file
is_valid_video_ffprobe_hasty(F, p) ==
    IF ~has_ffprobe THEN "None"
    ELSE IF FfprobeRun(F, p) = "ok" THEN "True" ELSE "False"

is_valid_video_ffprobe(F, p) ==
    IF ~has_ffprobe THEN "None"
    ELSE CASE FfprobeRun(F, p) = "timeout" -> "None"
           [] FfprobeRun(F, p) = "raise" -> "False"
           [] FfprobeRun(F, p) = "rc" -> "False"
           [] FfprobeRun(F, p) = "empty" -> "False"
           [] FfprobeRun(F, p) = "garbled" -> "False"
           [] OTHER -> "True"

detect_image_format(F, p) ==
    IF Exists(F, p) THEN PillowFormat(F[p].c) ELSE "NONE"

\* the canonical extension of a Pillow format, "NOMAP" for mapping.get -> None
image_format_to_suffix(fmt) ==
    CASE fmt = "JPEG" -> "jpg"
      [] fmt = "JPG" -> "jpg"
      [] fmt = "PNG" -> "png"
      [] fmt = "TIFF" -> "tif"
      [] fmt = "BMP" -> "bmp"
      [] fmt = "GIF" -> "gif"
      [] fmt = "WEBP" -> "webp"
      [] fmt = "HEIC" -> "heic"
      [] OTHER -> "NOMAP"

known_image_suffixes ==
    {"jpg", "jpeg", "png", "gif", "bmp", "tiff", "webp", "tif"}
        \cup (IF HEIC_SUPPORTED THEN {"heic"} ELSE {})

known_video_suffixes ==
    {"mp4", "avi", "mov", "mkv", "flv", "wmv", "webm", "m4v", "hevc", "h265"}

----------------------------------------------------------------------------
(* next_free_name *)

\* variants that leave out the existence probes: the properties of
\* next_free_name below must tell them from the real function
next_free_loop_unprobed(F, p, counter) == Candidate(p, counter)

next_free_name_unprobed(F, p) == p

RECURSIVE next_free_loop(_, _, _)
next_free_loop(F, p, counter) ==
    IF ~Exists(F, Candidate(p, counter)) THEN Candidate(p, counter)
    ELSE next_free_loop(F, p, counter + 1)

next_free_name(F, p) ==
    IF ~Exists(F, p) THEN p ELSE next_free_loop(F, p, 1)

----------------------------------------------------------------------------
(* detect_media_and_normalize_suffix.  The result is a record:             *)
(*   none    the function returned None                                     *)
(*   path    the path it returned otherwise                                 *)
(*   fs      the filesystem it leaves                                       *)
(*   op      the rename it attempted (NoOp if none)                         *)
(*   probes  how often it ran is_valid_video_ffprobe                        *)
(*   indet   is_valid_video_ffprobe returned None                           *)
(*   raised  an exception left the function                                 *)

DetectRet(p, F, op, probes) ==
    [none |-> FALSE, path |-> p, fs |-> F, op |-> op, probes |-> probes,
     indet |-> FALSE, raised |-> FALSE]

DetectNone(F, op, probes, indet) ==
    [none |-> TRUE, path |-> NoPath, fs |-> F, op |-> op, probes |-> probes,
     indet |-> indet, raised |-> FALSE]

DetectRaise(F, op) ==
    [none |-> TRUE, path |-> NoPath, fs |-> F, op |-> op, probes |-> 0,
     indet |-> FALSE, raised |-> TRUE]

old_ext_clean(suffix) == IF suffix # "" THEN suffix ELSE "NOEXT"

\* a variant that hands every file on to the check
detect_video_lenient(F, p) == DetectRet(p, F, NoOp, 0)

\* step 2 of both revisions: a known video extension, checked with ffprobe
detect_video(F, p) ==
    IF Lower(Suffix(p)) \in known_video_suffixes
    THEN IF is_valid_video_ffprobe(F, p) # "True"
         THEN DetectNone(F, NoOp, 1, is_valid_video_ffprobe(F, p) = "None")
         ELSE DetectRet(p, F, NoOp, 1)
    ELSE DetectNone(F, NoOp, 0, FALSE)

\* validate_media.py
\* a variant that trusts an image extension and sniffs the other files only
detect_media_and_normalize_suffix_by_extension(F, D, p, oserr) ==
    LET suffix == Lower(Suffix(p))
        fmt == detect_image_format(F, p)
        new_ext == image_format_to_suffix(fmt)
        new_name == TaggedName(old_ext_clean(suffix), p.name, new_ext)
        new_path == next_free_name(F, WithName(p, new_name))
        op == MoveOp("rename", F, D, p, WithName(p, new_name), new_path, oserr)
    IN  IF suffix \in known_image_suffixes \/ fmt = "NONE"
             \/ new_ext = "NOMAP" \/ suffix = new_ext
        THEN DetectRet(p, F, NoOp, 0)
        ELSE DetectRet(new_path, Rename(F, p, new_path), op, 0)

detect_media_and_normalize_suffix_pool(F, D, p, oserr) ==
    LET suffix == Lower(Suffix(p))
        fmt == detect_image_format(F, p)
        new_ext == image_format_to_suffix(fmt)
        new_name == TaggedName(old_ext_clean(suffix), p.name, new_ext)
        new_path == next_free_name(F, WithName(p, new_name))
        op == MoveOp("rename", F, D, p, WithName(p, new_name), new_path, oserr)
    IN  IF fmt # "NONE"
        THEN IF new_ext = "NOMAP" THEN DetectRet(p, F, NoOp, 0)
             ELSE IF suffix # new_ext
                  THEN IF op.ok
                       THEN DetectRet(new_path, Rename(F, p, new_path), op, 0)
                       ELSE DetectRaise(F, op)
                  ELSE DetectRet(p, F, NoOp, 0)
        ELSE detect_video(F, p)

\* stem.startswith("(thumb)") or stem.startswith("(thm)")
ThumbTagged(name) == name.tags # <<>> /\ name.tags[1] \in {"thumb", "thm"}

\* validate_media_single.py: a rename is tried, and only FileNotFoundError
\* is caught
detect_media_and_normalize_suffix_single(F, D, p, oserr) ==
    LET suffix == Lower(Suffix(p))
        fmt == detect_image_format(F, p)
        new_ext == image_format_to_suffix(fmt)
        thm_name == TaggedName(old_ext_clean(suffix), p.name, "jpg")
        thm_path == next_free_name(F, WithName(p, thm_name))
        thm_op == MoveOp("rename", F, D, p, WithName(p, thm_name), thm_path, oserr)
        new_name == TaggedName(old_ext_clean(suffix), p.name, new_ext)
        new_path == next_free_name(F, WithName(p, new_name))
        op == MoveOp("rename", F, D, p, WithName(p, new_name), new_path, oserr)
    IN  IF suffix \in {"thumb", "thm"}
        THEN IF ThumbTagged(p.name) THEN DetectRet(p, F, NoOp, 0)
             ELSE IF thm_op.ok
                  THEN DetectRet(thm_path, Rename(F, p, thm_path), thm_op, 0)
                  ELSE IF oserr THEN DetectRaise(F, thm_op)
                  ELSE IF Exists(F, thm_path)
                       THEN DetectRet(thm_path, F, thm_op, 0)
                       ELSE DetectNone(F, thm_op, 0, FALSE)
        ELSE IF fmt # "NONE"
        THEN IF new_ext = "NOMAP" THEN DetectRet(p, F, NoOp, 0)
             ELSE IF suffix = Lower(new_ext) THEN DetectRet(p, F, NoOp, 0)
             ELSE IF op.ok
                  THEN DetectRet(new_path, Rename(F, p, new_path), op, 0)
                  ELSE IF oserr THEN DetectRaise(F, op)
                  ELSE DetectNone(F, op, 0, FALSE)
        ELSE detect_video(F, p)

----------------------------------------------------------------------------
(* The media check.  A check yields [res, probes, indet]: res is "True",   *)
(* "False", "None", or "Hang" when the call never returns; indet says that *)
(* the check could not complete (no ffprobe, a timeout).                   *)

Chk(res, probes, indet) == [res |-> res, probes |-> probes, indet |-> indet]

\* with Image.open(path) as img: img.load()  inside try/except Exception
\* a variant in which a decode error is no result
image_decode_unguarded(F, p) ==
    IF detect_image_format(F, p) = "NONE" THEN "None"
    ELSE CASE PillowLoad(F[p].c) = "ok" -> "True"
           [] PillowLoad(F[p].c) = "hang" -> "Hang"
           [] OTHER -> "None"

image_decode(F, p) ==
    IF detect_image_format(F, p) = "NONE" THEN "False"
    ELSE CASE PillowLoad(F[p].c) = "ok" -> "True"
           [] PillowLoad(F[p].c) = "hang" -> "Hang"
           [] OTHER -> "False"

\* the last resort of the check: content sniffing only
image_sniff(F, p) == IF detect_image_format(F, p) # "NONE" THEN "True" ELSE "False"

\* a variant that looks at the header only, whatever the extension
_check_media_worker_sniffing(F, p) == Chk(image_sniff(F, p), 0, FALSE)

\* validate_media.py, in the worker process: bool(ok) turns None into False
_check_media_worker(F, p) ==
    LET suffix == Lower(Suffix(p))
    IN  IF suffix \in known_image_suffixes
        THEN Chk(image_decode(F, p), 0, FALSE)
        ELSE IF suffix \in known_video_suffixes
        THEN Chk(IF is_valid_video_ffprobe(F, p) = "True" THEN "True" ELSE "False",
                 1, is_valid_video_ffprobe(F, p) = "None")
        ELSE Chk(image_sniff(F, p), 0, FALSE)

_calc_workers ==
    IF MAX_WORKERS > 0
    THEN (IF CpuCount < MAX_WORKERS THEN CpuCount ELSE MAX_WORKERS)
    ELSE CpuCount

\* validate_media.py, in the main process: apply_async, then get(timeout).
\* h is the number of workers that never came back from an earlier check.
is_valid_media_pool(F, p, h) ==
    IF h >= _calc_workers THEN Chk("None", 0, TRUE)
    ELSE IF _check_media_worker(F, p).res = "Hang" THEN Chk("None", 0, TRUE)
    ELSE _check_media_worker(F, p)

\* the workers lost after this check
pool_hung_after(F, p, h) ==
    IF h < _calc_workers /\ _check_media_worker(F, p).res = "Hang"
    THEN h + 1 ELSE h

\* validate_media_single.py: in the main process, ok is returned as it is
is_valid_media_single(F, p) ==
    LET suffix == Lower(Suffix(p))
    IN  IF suffix \in known_image_suffixes
        THEN Chk(image_decode(F, p), 0, FALSE)
        ELSE IF suffix \in known_video_suffixes
        THEN Chk(is_valid_video_ffprobe(F, p), 1,
                 is_valid_video_ffprobe(F, p) = "None")
        ELSE Chk(image_sniff(F, p), 0, FALSE)

\* cv2.VideoCapture(path): opened and one frame read
Cv2Read(F, p) ==
    IF ~Exists(F, p) THEN "False"
    ELSE CASE F[p].c = "vid_ok" -> "True"
           [] F[p].c = "vid_hang" -> "Hang"
           [] OTHER -> "False"

\* validate_media_log.py: by extension only
is_valid_media_log(F, p) ==
    LET suffix == Lower(Suffix(p))
    IN  IF suffix \in {"jpg", "jpeg", "png", "gif", "bmp", "tiff", "webp"}
        THEN Chk(image_decode(F, p), 0, FALSE)
        ELSE IF suffix \in {"mp4", "avi", "mov", "mkv", "flv", "wmv", "webm", "m4v"}
        THEN Chk(Cv2Read(F, p), 0, FALSE)
        ELSE Chk("False", 0, FALSE)

----------------------------------------------------------------------------
(* What one branch of the loop body does to the disk: [fs, op]              *)

Effect(F, op) == [fs |-> F, op |-> op]

ValidDir == <<"valid">>

InvalidDir == <<"invalid">>

TimeoutDir == <<"timeout">>

\* dest = next_free_name(want), then the move or rename to dest
MoveEffect(kind, F, D, src, want, oserr) ==
    Effect(MoveFs(F, D, src, next_free_name(F, want), oserr),
           MoveOp(kind, F, D, src, want, next_free_name(F, want), oserr))

\* a variant that deletes with -m too
reject_file_always_delete(F, D, p, mv, oserr) ==
    Effect(UnlinkFs(F, p, oserr), UnlinkOp(F, p, oserr))

\* rename_media_files, a file that is not valid: moved to invalid/ under
\* its current name with -m, deleted without
reject_file(F, D, p, mv, oserr) ==
    IF mv
    THEN MoveEffect("move", F, D, p, P(InvalidDir, p.name), oserr)
    ELSE Effect(UnlinkFs(F, p, oserr), UnlinkOp(F, p, oserr))

\* a variant that deletes where the scripts quarantine
quarantine_file_unlink(F, D, p, oserr) ==
    Effect(UnlinkFs(F, p, oserr), UnlinkOp(F, p, oserr))

\* rename_media_files and cleanup_directory, check_result is None: moved to
\* timeout/ under its current name
quarantine_file(F, D, p, oserr) ==
    MoveEffect("move", F, D, p, P(TimeoutDir, p.name), oserr)

\* variants of the naming of a valid file
target_name_kept(F, p, file_name) == p.name

target_name_stemmed(F, p, file_name) == [file_name EXCEPT !.ext = ""]

accept_file_in_place(F, D, p, target, mv, oserr) ==
    MoveEffect("rename", F, D, p, WithName(p, target), oserr)

\* Path(file_name).stem: the name without its extension
StemOf(name) == [name EXCEPT !.ext = ""]

\* validate_media.py: the target name of a valid file
target_name_pool(F, p, file_name) ==
    LET suffix == Lower(Suffix(p))
        ext == image_format_to_suffix(detect_image_format(F, p))
    IN  IF suffix = ""
        THEN TaggedName("NOEXT", StemOf(file_name),
                        IF ext = "NOMAP" THEN "jpg" ELSE ext)
        ELSE IF suffix \notin known_image_suffixes
                /\ suffix \notin known_video_suffixes
                /\ ext # "NOMAP"
             THEN TaggedName(old_ext_clean(suffix), StemOf(file_name), ext)
             ELSE file_name

\* validate_media_single.py: the normalised name
target_name_single(F, p, file_name) == p.name

\* validate_media_log.py: the manifest's FileName
target_name_log(F, p, file_name) == file_name

target_name(r, F, p, file_name) ==
    CASE r = "pool" -> target_name_pool(F, p, file_name)
      [] r = "single" -> target_name_single(F, p, file_name)
      [] OTHER -> target_name_log(F, p, file_name)

\* rename_media_files, a valid file: moved to valid/ with -m, renamed in
\* its directory without
accept_file(F, D, p, target, mv, oserr) ==
    IF mv
    THEN MoveEffect("move", F, D, p, Join(ValidDir, target), oserr)
    ELSE MoveEffect("rename", F, D, p, WithName(p, target), oserr)

\* a variant that reports the deletion and leaves the file
delete_file_reported(F, p, oserr) == Effect(F, UnlinkOp(F, p, oserr))

\* cleanup_directory, a file that is not valid: deleted
delete_file(F, p, oserr) == Effect(UnlinkFs(F, p, oserr), UnlinkOp(F, p, oserr))

detect_media_and_normalize_suffix(r, F, D, p, oserr) ==
    IF r = "pool" THEN detect_media_and_normalize_suffix_pool(F, D, p, oserr)
    ELSE detect_media_and_normalize_suffix_single(F, D, p, oserr)

is_valid_media(r, F, p, h) ==
    CASE r = "pool" -> is_valid_media_pool(F, p, h)
      [] r = "single" -> is_valid_media_single(F, p)
      [] OTHER -> is_valid_media_log(F, p)

----------------------------------------------------------------------------
(* The runs the model starts from *)

PhotoName == Nm("photo", "jpg")

EvidenceName == Nm("evidence1", "jpg")

\* the files a manifest entry may point to (a name and what the bytes are)
\* with the FileName the manifest gives
EntrySeq ==
    << [src |-> Nm("a", "jpg"),     c |-> "jpeg_ok",  file_name |-> PhotoName],
       [src |-> Nm("b", "jpg"),     c |-> "png_ok",   file_name |-> EvidenceName],
       [src |-> Nm("c", "mp4"),     c |-> "vid_ok",   file_name |-> PhotoName],
       [src |-> Nm("c", "mp4"),     c |-> "vid_hang", file_name |-> PhotoName],
       [src |-> Nm("d", "dat"),     c |-> "junk",     file_name |-> PhotoName],
       [src |-> Nm("e", "jpg"),     c |-> "jpeg_bad", file_name |-> PhotoName],
       [src |-> Nm("f", "png"),     c |-> "png_hang", file_name |-> PhotoName],
       [src |-> Nm("g", ""),        c |-> "png_ok",   file_name |-> PhotoName],
       [src |-> Nm("photo", "jpg"), c |-> "jpeg_ok",  file_name |-> PhotoName],
       [src |-> Nm("i", "mp4"),     c |-> "ico_ok",   file_name |-> PhotoName],
       [src |-> Nm("j", ""),        c |-> "ico_bad",  file_name |-> PhotoName] >>

Entries == { EntrySeq[k] : k \in 1..Len(EntrySeq) }

Rank(e) == CHOOSE k \in 1..Len(EntrySeq) : EntrySeq[k] = e

\* a sweep has no manifest: its files are named once, in the order above
Sorted(m) == \A i, j \in DOMAIN m : i < j => Rank(m[i]) < Rank(m[j])

Consistent(m) ==
    \A i, j \in DOMAIN m : m[i].src = m[j].src => m[i].c = m[j].c

Manifests ==
    { m \in UNION { [1..n -> Entries] : n \in 0..MaxTasks } : Consistent(m) }

\* files that are on disk before the run and are in no manifest
ObstaclePaths ==
    << P(ValidDir, PhotoName),
       P(TimeoutDir, Nm("f", "png")),
       P(BaseDir, TaggedName("jpg", Nm("b", ""), "png")) >>

ObstacleSets ==
    { s \in SUBSET (1..Len(ObstaclePaths)) : Cardinality(s) <= MaxObstacles }

FirstIndex(m, src) == CHOOSE i \in DOMAIN m :
    m[i].src = src /\ \A j \in DOMAIN m : m[j].src = src => i <= j

\* what a Media entry of the manifest lacks: "RelativeFilePath" (the key is
\* missing or empty), "MediaFiles" (missing or an empty list), "FileName"
\* (missing or empty in MediaFiles[0]), "file" (nothing lies at the path) or
\* "nothing"
Lacks(e) == IF "lacks" \in DOMAIN e THEN e.lacks ELSE "nothing"

InitFs(m, obs) ==
    LET srcs == { P(BaseDir, m[i].src) :
                    i \in { j \in DOMAIN m :
                              Lacks(m[j]) \notin {"RelativeFilePath", "file"} } }
        obsp == { ObstaclePaths[k] : k \in obs }
        ObsIndex(q) == CHOOSE k \in obs : ObstaclePaths[k] = q
    IN  [ q \in srcs \cup obsp |->
            IF q \in srcs
            THEN [c |-> m[FirstIndex(m, q.name)].c, id |-> FirstIndex(m, q.name)]
            ELSE [c |-> "jpeg_ok", id |-> 0 - ObsIndex(q)] ]

Init ==
    /\ rev \in {"pool", "single", "log"}
    /\ mode \in {"json", "cleanup", "deps"}
    /\ move_mode \in BOOLEAN
    /\ ffprobe \in BOOLEAN
    /\ pillow \in BOOLEAN
    /\ cv2 \in BOOLEAN
    /\ target_found \in BOOLEAN
    /\ mode = "cleanup" => rev # "log" /\ ~move_mode
    /\ rev = "log" => ffprobe
    /\ rev # "log" => cv2
    /\ manifest \in Manifests
    \* a run over files has the libraries it imports
    /\ mode # "deps" =>
         /\ pillow /\ cv2
         /\ (target_found /\ ~ffprobe) =>
                \E i \in DOMAIN manifest :
                    Lower(manifest[i].src.ext) \in known_video_suffixes
    \* -p looks at no file
    /\ mode = "deps" => ~move_mode /\ manifest = <<>> /\ target_found
    \* a manifest that is not there has no entries; other files may lie in
    \* the directory
    /\ ~target_found => manifest = <<>> /\ ffprobe
    /\ mode = "cleanup" => Sorted(manifest)
    /\ \E obs \in ObstacleSets :
         /\ mode = "cleanup" => obs \subseteq {2}
         /\ mode = "deps" => obs = {}
         \* a directory that is not there holds nothing
         /\ (mode = "cleanup" /\ ~target_found) => obs = {}
         /\ fs = InitFs(manifest, obs)
         /\ dirs = IF mode = "cleanup" /\ ~target_found THEN {}
                   ELSE {BaseDir} \cup { ObstaclePaths[k].dir : k \in obs }
    /\ tasks = <<>>
    /\ idx = 0
    /\ pc = IF mode = "deps" THEN "deps" ELSE "start"
    /\ old_path = NoPath
    /\ check_result = "None"
    /\ valid_count = 0
    /\ invalid_count = 0
    /\ skipped_timeout = 0
    /\ deleted_count = 0
    /\ hung = 0
    /\ faults = 0
    /\ outcome = <<>>
    /\ calls = <<>>
    /\ last_op = NoOp
    /\ jobs = <<>>

----------------------------------------------------------------------------
(* The steps of rename_media_files and cleanup_directory *)

cfgvars == <<rev, mode, move_mode, ffprobe, pillow, cv2, target_found,
             manifest>>

counters == <<valid_count, invalid_count, skipped_timeout, deleted_count>>

Task(p, n) == [path |-> p, file_name |-> n]

\* `if not rel_path or not media_files: continue`, then
\* `if not file_name: continue`
Skipped(e) == Lacks(e) \in {"RelativeFilePath", "MediaFiles", "FileName"}

RECURSIVE collect_tasks_until_malformed(_, _)
\* a variant that gives up the manifest at the first entry it cannot use
collect_tasks_until_malformed(F, m) ==
    IF m = <<>> THEN <<>>
    ELSE IF Skipped(Head(m)) \/ ~Exists(F, P(BaseDir, Head(m).src))
         THEN <<>>
         ELSE <<Task(P(BaseDir, Head(m).src), Head(m).file_name)>>
                  \o collect_tasks_until_malformed(F, Tail(m))

RECURSIVE collect_tasks_reversed(_, _)
\* a variant that starts with the last entry of the manifest
collect_tasks_reversed(F, m) ==
    IF m = <<>> THEN <<>>
    ELSE collect_tasks_reversed(F, Tail(m))
            \o (IF ~Skipped(Head(m)) /\ Exists(F, P(BaseDir, Head(m).src))
                THEN <<Task(P(BaseDir, Head(m).src), Head(m).file_name)>>
                ELSE <<>>)

RECURSIVE collect_tasks(_, _)
\* validate_media.py / validate_media_single.py: the entries that have a
\* path and a name and whose file exists
collect_tasks(F, m) ==
    IF m = <<>> THEN <<>>
    ELSE (IF ~Skipped(Head(m)) /\ Exists(F, P(BaseDir, Head(m).src))
          THEN <<Task(P(BaseDir, Head(m).src), Head(m).file_name)>>
          ELSE <<>>) \o collect_tasks(F, Tail(m))

RECURSIVE all_entries(_)
\* validate_media_log.py has no collection pass: every entry that has a
\* path and a name is looked at when the loop reaches it
all_entries(m) ==
    IF m = <<>> THEN <<>>
    ELSE (IF ~Skipped(Head(m))
          THEN <<Task(P(BaseDir, Head(m).src), Head(m).file_name)>>
          ELSE <<>>) \o all_entries(Tail(m))

\* directory.rglob("*"), files only, in any order
Orderings(S) ==
    { q \in [1..Cardinality(S) -> S] :
        \A i, j \in 1..Cardinality(S) : q[i] = q[j] => i = j }

all_files(F) ==
    { [i \in DOMAIN q |-> Task(q[i], q[i].name)] : q \in Orderings(DOMAIN F) }

\* a variant that always makes the three directories
made_dirs_always ==
    (IF rev # "log" THEN {TimeoutDir} ELSE {}) \cup {ValidDir, InvalidDir}

made_dirs ==
    (IF rev # "log" THEN {TimeoutDir} ELSE {})
        \cup (IF mode = "json" /\ move_mode THEN {ValidDir, InvalidDir} ELSE {})

NextPc == IF idx < Len(tasks) THEN "classify" ELSE "done"

\* a variant that forgets to count
Bump_forgotten(counter, taken) == counter

\* counter += 1 in the branch taken
Bump(counter, taken) == IF taken THEN counter + 1 ELSE counter

Fault(oserr, op) == oserr => faults < MaxFaults /\ op.kind # "none"

\* main() up to the loop: the test that the manifest (the directory with
\* -c) is there, then the setup of rename_media_files or cleanup_directory
Start ==
    /\ pc = "start"
    /\ IF ~target_found
       THEN /\ pc' = "exit_1"
            /\ UNCHANGED <<dirs, tasks, idx, outcome, calls>>
       ELSE /\ dirs' = dirs \cup made_dirs
            /\ tasks' \in (CASE mode = "cleanup" -> all_files(fs)
                             [] rev = "log" -> {all_entries(manifest)}
                             [] OTHER -> {collect_tasks(fs, manifest)})
            /\ idx' = 1
            /\ pc' = IF tasks' = <<>> THEN "done" ELSE "classify"
            /\ outcome' = [i \in DOMAIN tasks' |-> "none"]
            /\ calls' = [i \in DOMAIN tasks' |->
                            [detect |-> 0, valid |-> 0, probe |-> 0,
                             indet |-> FALSE]]
    /\ UNCHANGED <<cfgvars, jobs, fs, old_path, check_result, counters, hung,
                   faults, last_op>>

\* the pre-normalisation of one task and, when it returns None, what the
\* loop body does then, as revision rv does it (validate_media.py,
\* validate_media_single.py)
ClassifyAs(rv) ==
    /\ pc = "classify" /\ mode = "json" /\ rv # "log"
    /\ \E oserr \in BOOLEAN :
        LET p == tasks[idx].path
            r == detect_media_and_normalize_suffix(rv, fs, dirs, p, oserr)
            vanished == rv = "single" /\ ~Exists(r.fs, p)
            e == reject_file(r.fs, dirs, p, move_mode, oserr)
            op == IF r.raised \/ ~r.none \/ vanished THEN r.op ELSE e.op
        IN  /\ Fault(oserr, op)
            /\ faults' = IF oserr THEN faults + 1 ELSE faults
            /\ last_op' = op
            /\ fs' = IF r.raised \/ ~r.none \/ vanished THEN r.fs ELSE e.fs
            /\ old_path' = IF r.none THEN old_path ELSE r.path
            /\ pc' = IF r.raised THEN "crashed"
                     ELSE IF r.none THEN NextPc ELSE "validate"
            /\ idx' = IF ~r.raised /\ r.none THEN idx + 1 ELSE idx
            /\ invalid_count' =
                   Bump(invalid_count, ~r.raised /\ r.none /\ ~vanished)
            /\ outcome' = IF r.raised \/ ~r.none THEN outcome
                          ELSE [outcome EXCEPT ![idx] =
                                   IF vanished THEN "skipped" ELSE "rejected"]
    /\ UNCHANGED <<cfgvars, jobs, dirs, tasks, check_result, valid_count,
                   skipped_timeout, deleted_count, hung>>

Classify ==
    /\ ClassifyAs(rev)
    /\ LET r == detect_media_and_normalize_suffix(rev, fs, dirs,
                     tasks[idx].path, faults' # faults)
       IN  calls' = [calls EXCEPT ![idx].detect = @ + 1,
                                  ![idx].probe = @ + r.probes,
                                  ![idx].indet = @ \/ r.indet]

\* validate_media_log.py: the entry's file is looked up, nothing is renamed
ClassifyLog ==
    /\ pc = "classify" /\ mode = "json" /\ rev = "log"
    /\ IF Exists(fs, tasks[idx].path)
       THEN /\ old_path' = tasks[idx].path
            /\ pc' = "validate"
            /\ UNCHANGED <<idx, outcome>>
       ELSE /\ outcome' = [outcome EXCEPT ![idx] = "notfound"]
            /\ pc' = NextPc
            /\ idx' = idx + 1
            /\ UNCHANGED old_path
    /\ last_op' = NoOp
    /\ UNCHANGED <<cfgvars, jobs, fs, dirs, tasks, check_result, counters, hung,
                   faults, calls>>

\* is_valid_media on the normalised path, as revision rv does it
ValidateAs(rv) ==
    /\ pc = "validate"
    /\ LET c == is_valid_media(rv, fs, old_path, hung)
       IN  /\ pc' = IF c.res = "Hang" THEN "stuck" ELSE "act"
           /\ check_result' = IF c.res = "Hang" THEN check_result ELSE c.res
    /\ hung' = IF rv = "pool" THEN pool_hung_after(fs, old_path, hung) ELSE hung
    /\ last_op' = NoOp
    /\ UNCHANGED <<cfgvars, jobs, fs, dirs, tasks, idx, old_path, counters, faults,
                   outcome>>

Validate ==
    /\ ValidateAs(rev)
    /\ LET c == is_valid_media(rev, fs, old_path, hung)
       IN  calls' = [calls EXCEPT ![idx].valid = @ + 1,
                                  ![idx].probe = @ + c.probes,
                                  ![idx].indet = @ \/ c.indet]

\* rename_media_files: the branch taken on check_result, as revision rv
\* does it
ActAs(rv) ==
    /\ pc = "act" /\ mode = "json"
    /\ \E oserr \in BOOLEAN :
        LET target == target_name(rv, fs, old_path, tasks[idx].file_name)
            e == CASE check_result = "None" ->
                        quarantine_file(fs, dirs, old_path, oserr)
                   [] check_result = "False" ->
                        reject_file(fs, dirs, old_path, move_mode, oserr)
                   [] OTHER ->
                        accept_file(fs, dirs, old_path, target, move_mode, oserr)
            \* the in-place rename of a valid file is outside any try
            raised == check_result = "True" /\ ~move_mode /\ ~e.op.ok
        IN  /\ Fault(oserr, e.op)
            /\ faults' = IF oserr THEN faults + 1 ELSE faults
            /\ fs' = e.fs
            /\ last_op' = e.op
            /\ pc' = IF raised THEN "crashed" ELSE NextPc
            /\ idx' = IF raised THEN idx ELSE idx + 1
    /\ skipped_timeout' = Bump(skipped_timeout, check_result = "None")
    /\ invalid_count' = Bump(invalid_count, check_result = "False")
    /\ valid_count' = Bump(valid_count, check_result = "True")
    /\ outcome' = [outcome EXCEPT ![idx] =
                      CASE check_result = "None" -> "quarantined"
                        [] check_result = "False" -> "rejected"
                        [] OTHER -> "accepted"]
    /\ UNCHANGED <<cfgvars, jobs, dirs, tasks, old_path, check_result,
                   deleted_count, hung, calls>>

Act == ActAs(rev)

\* cleanup_directory: the pre-normalisation of one file; None deletes it
ClassifyCleanup ==
    /\ pc = "classify" /\ mode = "cleanup" /\ rev # "log"
    /\ \E oserr \in BOOLEAN :
        LET p == tasks[idx].path
            r == detect_media_and_normalize_suffix(rev, fs, dirs, p, oserr)
            e == delete_file(r.fs, p, oserr)
            op == IF r.raised \/ ~r.none THEN r.op ELSE e.op
        IN  /\ Fault(oserr, op)
            /\ faults' = IF oserr THEN faults + 1 ELSE faults
            /\ last_op' = op
            /\ calls' = [calls EXCEPT ![idx].detect = @ + 1,
                                      ![idx].probe = @ + r.probes,
                                      ![idx].indet = @ \/ r.indet]
            /\ fs' = IF r.raised \/ ~r.none THEN r.fs ELSE e.fs
            /\ old_path' = IF r.none THEN old_path ELSE r.path
            /\ pc' = IF r.raised THEN "crashed"
                     ELSE IF r.none THEN NextPc ELSE "validate"
            /\ idx' = IF ~r.raised /\ r.none THEN idx + 1 ELSE idx
            /\ deleted_count' =
                   Bump(deleted_count, ~r.raised /\ r.none /\ e.op.ok)
            /\ outcome' = IF r.raised \/ ~r.none THEN outcome
                          ELSE [outcome EXCEPT ![idx] = "rejected"]
    /\ UNCHANGED <<cfgvars, jobs, dirs, tasks, check_result, valid_count,
                   invalid_count, skipped_timeout, hung>>

\* cleanup_directory: the branch taken on check_result
ActCleanup ==
    /\ pc = "act" /\ mode = "cleanup"
    /\ \E oserr \in BOOLEAN :
        LET e == CASE check_result = "None" ->
                        quarantine_file(fs, dirs, old_path, oserr)
                   [] check_result = "False" ->
                        delete_file(fs, old_path, oserr)
                   [] OTHER -> Effect(fs, NoOp)
        IN  /\ Fault(oserr, e.op)
            /\ faults' = IF oserr THEN faults + 1 ELSE faults
            /\ fs' = e.fs
            /\ last_op' = e.op
            /\ deleted_count' =
                   Bump(deleted_count, check_result = "False" /\ e.op.ok)
    /\ skipped_timeout' = Bump(skipped_timeout, check_result = "None")
    /\ outcome' = [outcome EXCEPT ![idx] =
                      CASE check_result = "None" -> "quarantined"
                        [] check_result = "False" -> "rejected"
                        [] OTHER -> "accepted"]
    /\ pc' = NextPc
    /\ idx' = idx + 1
    /\ UNCHANGED <<cfgvars, jobs, dirs, tasks, old_path, check_result, valid_count,
                   invalid_count, hung, calls>>

\* check_dependencies of validate_media.py and validate_media_single.py
check_dependencies_pool(has_pil, has_probe) ==
    LET missing == IF has_pil THEN <<>> ELSE <<"pillow">>
    IN  ~(missing # <<>> \/ ~has_probe)

\* check_dependencies of validate_media_log.py
check_dependencies_log(has_pil, has_cv2) ==
    LET missing == (IF has_pil THEN <<>> ELSE <<"pillow">>)
                       \o (IF has_cv2 THEN <<>> ELSE <<"opencv-python">>)
    IN  ~(missing # <<>>)

\* the status main() passes to sys.exit in its -p branch
exit_status(r, has_pil, has_probe, has_cv2) ==
    IF r = "log"
    \* check_dependencies() is called and its result dropped; sys.exit(0)
    THEN LET ok == check_dependencies_log(has_pil, has_cv2) IN 0
    ELSE LET ok == check_dependencies_pool(has_pil, has_probe)
         IN  IF ok THEN 0 ELSE 1

\* main(): the -p branch
DependencyCheck ==
    /\ pc = "deps" /\ mode = "deps"
    /\ pc' = IF exit_status(rev, pillow, ffprobe, cv2) = 0
             THEN "exit_0" ELSE "exit_1"
    /\ UNCHANGED <<cfgvars, jobs, fs, dirs, tasks, idx, old_path, check_result,
                   counters, hung, faults, outcome, calls, last_op>>

\* a variant in which a run that rejected or quarantined a file fails
sys_exit_strict ==
    CASE pc \in {"exit_1", "crashed"} -> 1
      [] pc = "exit_0" -> 0
      [] pc = "done" ->
            IF invalid_count + skipped_timeout + deleted_count > 0
            THEN 1 ELSE 0
      [] OTHER -> 0 - 1

\* the exit status of the process: sys.exit(n), 0 when main() returns, 1
\* when an exception leaves it; -1 while it runs
sys_exit ==
    CASE pc \in {"exit_1", "crashed"} -> 1
      [] pc \in {"exit_0", "done"} -> 0
      [] OTHER -> 0 - 1

Next ==
    \/ Start
    \/ Classify
    \/ ClassifyLog
    \/ Validate
    \/ Act
    \/ ClassifyCleanup
    \/ ActCleanup
    \/ DependencyCheck

Spec == Init /\ [][Next]_vars

----------------------------------------------------------------------------
(* Properties *)

\* got is what collision resolution must make of want on filesystem F: want
\* itself when nothing is there, else want with the smallest counter k >= 1
\* whose path is free
FreeCopyOf(F, want, got) ==
    IF ~Exists(F, want) THEN got = want
    ELSE \E k \in 1..(Cardinality(DOMAIN F) + 1) :
            /\ got = Candidate(want, k)
            /\ ~Exists(F, got)
            /\ \A j \in 1..(k - 1) : Exists(F, Candidate(want, j))

FileIds(F) == { F[q].id : q \in DOMAIN F }

Count(o) == Cardinality({ i \in DOMAIN outcome : outcome[i] = o })

\* C3: in validate_media.py, with and without a manifest, a check_result of
\* None moves the file to timeout/ under a collision-resolved copy of its
\* current name, adds exactly one to skipped_timeout, leaves valid_count,
\* invalid_count and the deletions alone and does not delete the file; if
\* the move fails the file stays where it is.
C3_NoneIsQuarantined ==
    [][ (rev = "pool" /\ pc = "act" /\ check_result = "None") =>
          /\ Exists(fs, old_path)
          /\ skipped_timeout' = skipped_timeout + 1
          /\ valid_count' = valid_count
          /\ invalid_count' = invalid_count
          /\ deleted_count' = deleted_count
          /\ last_op'.kind = "move"
          /\ last_op'.src = old_path
          /\ FreeCopyOf(fs, P(TimeoutDir, old_path.name), last_op'.dst)
          /\ FileIds(fs') = FileIds(fs)
          /\ IF last_op'.ok
             THEN /\ ~Exists(fs', old_path)
                  /\ Exists(fs', last_op'.dst)
                  /\ fs'[last_op'.dst] = fs[old_path]
                  /\ \A q \in DOMAIN fs \ {old_path} :
                        Exists(fs', q) /\ fs'[q] = fs[q]
             ELSE fs' = fs ]_vars

C3_Witness ==
    /\ rev = "pool"
    /\ last_op.kind = "move"
    /\ last_op.ok
    /\ last_op.dst.dir = TimeoutDir
    /\ last_op.dst = Candidate(last_op.want, 1)
    /\ Exists(fs, last_op.want)
    /\ skipped_timeout = 1

\* C4: no rename or move, in any revision and either mode, has an existing
\* path as its destination, and no file is lost to a rename or move.
C4_NoOverwrite ==
    [][ last_op'.kind \in {"rename", "move"} =>
          /\ ~Exists(fs, last_op'.dst)
          /\ FileIds(fs') = FileIds(fs) ]_vars

C4_Witness ==
    /\ last_op.kind = "rename"
    /\ last_op.ok
    /\ last_op.dst # last_op.want
    /\ Exists(fs, last_op.want)
    /\ Exists(fs, last_op.dst)
    /\ fs[last_op.want].id # fs[last_op.dst].id

\* C5: next_free_name(p) is p when p does not exist, and otherwise p with
\* the smallest counter k >= 1 whose path does not exist; the path it
\* returns does not exist when it returns.
C5_NextFreeName ==
    [][ last_op'.kind \in {"rename", "move"} =>
          /\ FreeCopyOf(fs, last_op'.want, last_op'.dst)
          /\ ~Exists(fs, last_op'.dst)
          /\ last_op'.dst.dir = last_op'.want.dir ]_vars

C5_Witness ==
    /\ last_op.kind \in {"rename", "move"}
    /\ last_op.ok
    /\ last_op.dst = Candidate(last_op.want, 2)
    /\ Exists(fs, last_op.want)
    /\ Exists(fs, Candidate(last_op.want, 1))

\* the record's file is no image by content and has no video extension
Unrecognised(i) ==
    /\ PillowFormat(manifest[i].c) = "NONE"
    /\ Lower(manifest[i].src.ext) \notin known_video_suffixes

C7_OutcomePartition ==
    (mode = "json" /\ rev # "log" /\ pc = "done") =>
        /\ \A i \in DOMAIN tasks :
              outcome[i] \in {"accepted", "rejected", "quarantined", "skipped"}
        /\ valid_count = Count("accepted")
        /\ invalid_count = Count("rejected")
        /\ skipped_timeout = Count("quarantined")
        /\ valid_count + invalid_count + skipped_timeout + Count("skipped")
              = Len(tasks)

C7_Witness ==
    /\ mode = "json" /\ rev # "log" /\ pc = "done"
    /\ Len(tasks) = 2
    /\ Count("skipped") = 1
    /\ invalid_count = 1

\* the directory a valid file ends in
AcceptDir == IF move_mode THEN ValidDir ELSE BaseDir

\* where the file of record i is now
PathsOf(i) == { q \in DOMAIN fs : fs[q].id = i }

\* record i is the first of the manifest that names its source file
First(i) == i = FirstIndex(manifest, manifest[i].src)

\* m is n up to collision counters
ModNums(n, m) == [m EXCEPT !.nums = <<>>] = [n EXCEPT !.nums = <<>>]

\* C1: in validate_media.py and validate_media_single.py, with and without
\* -m, a file whose check could not complete (no ffprobe, an ffprobe
\* timeout, no pool result in time) is quarantined: it is still on disk and
\* it is counted neither as invalid nor as valid.
C1_IndeterminateIsQuarantined ==
    (mode = "json" /\ rev # "log") =>
        \A i \in DOMAIN tasks :
            (First(i) /\ calls[i].indet /\ outcome[i] # "none")
                => /\ outcome[i] = "quarantined"
                   /\ PathsOf(i) # {}
                   /\ \A q \in PathsOf(i) : q.dir \notin {InvalidDir, ValidDir}

\* C2: a manifest of one file that is no image and has a video extension,
\* run without ffprobe, with or without -m: the file is moved to timeout/,
\* skipped_timeout is 1 and invalid_count is 0.
C2_ScenarioC ==
    (/\ mode = "json" /\ rev # "log" /\ ~ffprobe
     /\ Len(manifest) = 1
     /\ PillowFormat(manifest[1].c) = "NONE"
     /\ Lower(manifest[1].src.ext) \in known_video_suffixes
     /\ faults = 0
     /\ pc = "done")
        => /\ skipped_timeout = 1
           /\ invalid_count = 0
           /\ \E q \in PathsOf(1) : q.dir = TimeoutDir

\* the task at hand is Scenario A before normalisation: a file named
\* <stem>.jpg whose content is PNG, to be named evidence1.jpg
ScenarioA_Found ==
    /\ mode = "json" /\ rev # "log" /\ pc = "classify"
    /\ Exists(fs, tasks[idx].path)
    /\ fs[tasks[idx].path].c = "png_ok"
    /\ tasks[idx].path.name.tags = <<>>
    /\ tasks[idx].path.name.ext = "jpg"
    /\ tasks[idx].file_name = EvidenceName

\* the task at hand is Scenario A, normalised and found valid
ScenarioA_Valid ==
    /\ mode = "json" /\ rev # "log" /\ pc = "act" /\ check_result = "True"
    /\ fs[old_path].c = "png_ok"
    /\ old_path.name.tags = <<"jpg">>
    /\ old_path.name.ext = "png"
    /\ tasks[idx].file_name = EvidenceName

\* normalisation renames <stem>.jpg to (jpg)<stem>.png, or the run stops on
\* an error of the rename
ScenarioA_Normalised ==
    ScenarioA_Found =>
        /\ pc' \in {"validate", "crashed"} \/ (rev = "single" /\ ~last_op'.ok)
        /\ pc' = "validate" =>
              /\ last_op'.kind = "rename" /\ last_op'.ok
              /\ old_path' = last_op'.dst
              /\ FreeCopyOf(fs, WithName(tasks[idx].path,
                                         TaggedName("jpg", tasks[idx].path.name, "png")),
                            old_path')
              /\ fs'[old_path'] = fs[tasks[idx].path]

\* C8 as the specification states it: the file of Scenario A is renamed to
\* (jpg)<stem>.png by normalisation and, found valid, to evidence1.png.
C8_ScenarioA ==
    [][ /\ ScenarioA_Normalised
        /\ ScenarioA_Valid =>
              /\ last_op'.kind \in {"rename", "move"}
              /\ FreeCopyOf(fs, P(AcceptDir, Nm("evidence1", "png")), last_op'.dst)
      ]_vars

\* C8, amended: the file of Scenario A is renamed to (jpg)<stem>.png by
\* normalisation; found valid, validate_media.py gives it the manifest's
\* FileName evidence1.jpg as it stands, and validate_media_single.py its
\* normalised name, which in Standard mode is taken by the file itself and
\* so gets a counter.
C8_ScenarioA_Amended ==
    [][ /\ ScenarioA_Normalised
        /\ ScenarioA_Valid =>
              /\ last_op'.kind \in {"rename", "move"}
              /\ last_op'.src = old_path
              /\ rev = "pool" =>
                    FreeCopyOf(fs, P(AcceptDir, EvidenceName), last_op'.dst)
              /\ rev = "single" =>
                    /\ FreeCopyOf(fs, P(AcceptDir, old_path.name), last_op'.dst)
                    /\ ~move_mode => last_op'.dst = Candidate(old_path, 1)
              /\ last_op'.ok => /\ fs'[last_op'.dst] = fs[old_path]
                                /\ ~Exists(fs', old_path)
      ]_vars

C8_Witness ==
    /\ mode = "json" /\ rev = "pool"
    /\ last_op.kind \in {"rename", "move"} /\ last_op.ok
    /\ last_op.src.name = TaggedName("jpg", Nm("b", "jpg"), "png")
    /\ last_op.dst = P(AcceptDir, EvidenceName)
    /\ fs[last_op.dst].c = "png_ok"
    /\ valid_count > 0

\* two records with different source files, both to be named photo.jpg,
\* both accepted
ScenarioB ==
    /\ mode = "json" /\ faults = 0 /\ pc = "done"
    /\ Len(manifest) = 2
    /\ manifest[1].src # manifest[2].src
    /\ manifest[1].file_name = PhotoName
    /\ manifest[2].file_name = PhotoName
    /\ outcome[1] = "accepted"
    /\ outcome[2] = "accepted"

FirstAtPhotoSecondAtPhoto1 ==
    /\ PathsOf(1) = {P(AcceptDir, PhotoName)}
    /\ PathsOf(2) = {Candidate(P(AcceptDir, PhotoName), 1)}

NoPhotoBefore ==
    /\ \A q \in DOMAIN fs :
          (fs[q].id < 0 /\ q.dir = AcceptDir) => ~ModNums(PhotoName, q.name)
    /\ ~move_mode =>
          \A i \in DOMAIN manifest : ~ModNums(PhotoName, manifest[i].src)

\* the file of record i has an extension once it is normalised
HasExtension(i) ==
    \/ manifest[i].src.ext # ""
    \/ image_format_to_suffix(PillowFormat(manifest[i].c)) # "NOMAP"

C10_ManifestName ==
    [][ (mode = "json" /\ pc = "act" /\ check_result = "True") =>
          /\ last_op'.kind \in {"rename", "move"}
          /\ FreeCopyOf(fs, P(IF move_mode THEN ValidDir ELSE old_path.dir,
                              tasks[idx].file_name),
                        last_op'.dst) ]_vars

\* C10, amended: a file found valid is renamed in its directory, or moved
\* to valid/ with -m, in validate_media.py and validate_media_log.py to the
\* manifest's FileName, except that validate_media.py names a file without
\* extension (NOEXT)<stem of FileName>.jpg; in validate_media_single.py to
\* the name it has, not to the FileName; each altered only by a collision
\* counter.
C10_ManifestName_Amended ==
    [][ (mode = "json" /\ pc = "act" /\ check_result = "True") =>
          /\ last_op'.kind = (IF move_mode THEN "move" ELSE "rename")
          /\ last_op'.src = old_path
          /\ FreeCopyOf(fs,
                        P(IF move_mode THEN ValidDir ELSE old_path.dir,
                          CASE rev = "single" -> old_path.name
                            [] rev = "pool" /\ old_path.name.ext = "" ->
                                 [tags |-> <<"NOEXT">>,
                                  base |-> tasks[idx].file_name.base,
                                  nums |-> <<>>, ext |-> "jpg"]
                            [] OTHER -> tasks[idx].file_name),
                        last_op'.dst)
          /\ last_op'.ok => /\ fs'[last_op'.dst] = fs[old_path]
                            /\ valid_count' = valid_count + 1 ]_vars

C10_Witness ==
    /\ mode = "json" /\ rev = "pool" /\ move_mode
    /\ last_op.kind = "move" /\ last_op.ok
    /\ last_op.want = P(ValidDir, PhotoName)
    /\ last_op.dst = Candidate(P(ValidDir, PhotoName), 1)
    /\ last_op.src.name.base # "photo"
    /\ outcome[idx - 1] = "accepted"

----------------------------------------------------------------------------
(* detect_media_and_normalize_suffix applied again and again to one file,  *)
(* as successive runs over the same directory do                           *)

\* the names the file starts with
NormNames ==
    { Nm("x", e) : e \in {"jpg", "JPG", "jpeg", "png", "tiff", "thm", "thumb",
                          "", "mp4", "dat"} }
        \cup { [tags |-> <<"thm">>, base |-> "x", nums |-> <<>>, ext |-> "thm"] }

\* the .jpg name a first normalisation may want, taken by another file
NormObstacle(n) == P(BaseDir, TaggedName(old_ext_clean(Lower(n.ext)), n, "jpg"))

NormInit ==
    /\ rev \in {"pool", "single"}
    /\ mode = "norm"
    /\ move_mode = FALSE
    /\ ffprobe \in BOOLEAN
    /\ pillow = TRUE
    /\ cv2 = TRUE
    /\ target_found = TRUE
    /\ manifest = <<>>
    /\ \E n \in NormNames, c \in Contents, taken \in BOOLEAN :
         /\ old_path = P(BaseDir, n)
         /\ fs = [ q \in {P(BaseDir, n)}
                        \cup (IF taken THEN {NormObstacle(n)} ELSE {}) |->
                     IF q = P(BaseDir, n) THEN [c |-> c, id |-> 1]
                     ELSE [c |-> "jpeg_ok", id |-> 0 - 1] ]
    /\ dirs = {BaseDir}
    /\ tasks = <<>>
    /\ idx = 0
    /\ pc = "norm"
    /\ check_result = "None"
    /\ valid_count = 0
    /\ invalid_count = 0
    /\ skipped_timeout = 0
    /\ deleted_count = 0
    /\ hung = 0
    /\ faults = 0
    /\ outcome = <<>>
    /\ calls = <<>>
    /\ last_op = NoOp
    /\ jobs = <<>>

\* one more application, to the path the last one returned
Normalize ==
    /\ pc = "norm" /\ mode = "norm" /\ idx < MaxApply
    /\ LET r == detect_media_and_normalize_suffix(rev, fs, dirs, old_path, FALSE)
       IN  /\ fs' = r.fs
           /\ last_op' = r.op
           /\ old_path' = IF r.none THEN old_path ELSE r.path
           /\ pc' = IF r.raised THEN "crashed"
                    ELSE IF r.none THEN "none" ELSE "norm"
    /\ idx' = idx + 1
    /\ UNCHANGED <<cfgvars, jobs, dirs, tasks, check_result, counters, hung, faults,
                   outcome, calls>>

NormNext == Normalize

SpecNorm == NormInit /\ [][NormNext]_vars

\* C11 as the specification states it: once detect_media_and_normalize_suffix
\* has returned a path, applying it to that path returns the same path and
\* renames nothing.
C11_NormaliseIdempotent ==
    [][ (mode = "norm" /\ pc = "norm" /\ idx >= 1) =>
          /\ pc' = "norm"
          /\ old_path' = old_path
          /\ last_op'.kind = "none"
          /\ fs' = fs ]_vars

\* C12 as the specification states it: in validate_media_single.py, a file
\* that carries the (thm) or (thumb) tag of an earlier application is not
\* renamed by a further one.
C12_ThumbTaggedOnce ==
    [][ (/\ mode = "norm" /\ rev = "single" /\ pc = "norm" /\ idx >= 1
         /\ ThumbTagged(old_path.name)) =>
          /\ last_op'.kind = "none"
          /\ old_path'.name.tags = old_path.name.tags
          /\ fs' = fs ]_vars

----------------------------------------------------------------------------
(* Errors, vanished sources, deadlines *)

\* C13 as the specification states it: a failing filesystem operation is a
\* failure of that file only; the run never ends on it.
C13_NoAbort ==
    mode \in {"json", "cleanup"} => pc # "crashed"

\* C14 as the specification states it: in validate_media.py and
\* validate_media_single.py a record whose source file is gone when it is
\* normalised is skipped: no counter moves, no delete and no move is tried,
\* and the loop goes on with the next task.
C14_VanishedIsSkipped ==
    [][ (/\ mode = "json" /\ rev # "log" /\ pc = "classify"
         /\ ~Exists(fs, tasks[idx].path)) =>
          /\ outcome'[idx] = "skipped"
          /\ counters' = counters
          /\ last_op'.kind = "none"
          /\ fs' = fs
          /\ idx' = idx + 1
          /\ pc' = NextPc ]_vars

\* C15 as the specification states it: in validate_media.py no pool worker
\* stays occupied by a check whose deadline has expired.
C15_TimedOutWorkerKilled ==
    rev = "pool" => hung = 0

\* C16 as the specification states it: in validate_media.py a file whose
\* check returns when run alone is not reported without result, however
\* many earlier checks hung.
C16_IndependentDeadlines ==
    [][ (/\ rev = "pool" /\ pc = "validate"
         /\ _check_media_worker(fs, old_path).res # "Hang") =>
          /\ pc' = "act"
          /\ check_result' = _check_media_worker(fs, old_path).res ]_vars

\* C17 as the specification states it: in validate_media.py and
\* validate_media_single.py no stage waits for ever on a decode or an
\* inspection that does not return.
C17_NeverStalls ==
    rev \in {"pool", "single"} => pc # "stuck"

----------------------------------------------------------------------------
(* The capability check -p *)

\* what the revision needs besides Python: Pillow and its video inspection
MandatoryPresent ==
    pillow /\ (IF rev = "log" THEN cv2 ELSE ffprobe)

\* C20 as the specification states it: in every revision -p ends with status
\* 0 exactly when Pillow and the video inspection are both present, and with
\* a non-zero status when one of them is missing.
C20_ExitStatus ==
    (mode = "deps" /\ pc \in {"exit_0", "exit_1"}) =>
        (pc = "exit_0" <=> MandatoryPresent)

----------------------------------------------------------------------------
(* The sequential and the pooled revision *)

\* no file on disk makes a decode or an inspection run into its deadline
NoDeadlineExpires ==
    \A q \in DOMAIN fs : fs[q].c \notin {"png_hang", "vid_hang"}

\* a step of the loop of validate_media.py in which no deadline expires
\* and no filesystem operation is made to fail
PooledStep ==
    /\ rev = "pool" /\ mode = "json"
    /\ pc \in {"classify", "validate", "act"}
    /\ NoDeadlineExpires
    /\ faults' = faults

\* what validate_media_single.py does from the same state
SequentialStep ==
    ClassifyAs("single") \/ ValidateAs("single") \/ ActAs("single")

VanishedCounted ==
    /\ pc = "classify" /\ ~Exists(fs, tasks[idx].path)
    /\ outcome' = [outcome EXCEPT ![idx] = "rejected"]
    /\ invalid_count' = invalid_count + 1
    /\ last_op'.kind # "none" /\ ~last_op'.ok
    /\ fs' = fs
    /\ pc' = NextPc /\ idx' = idx + 1

\* without ffprobe the pooled revision reports a file with a video
\* extension as invalid; the sequential revision reports it without result
NoProbeIsInvalid ==
    /\ pc = "validate" /\ ~ffprobe
    /\ Lower(Suffix(old_path)) \in known_video_suffixes
    /\ is_valid_media_single(fs, old_path).res = "None"
    /\ check_result' = "False"
    /\ pc' = "act"
    /\ fs' = fs

\* a valid file: both revisions count it and rename or move it from the
\* same path into the same directory; the pooled revision names it after
\* the manifest, the sequential revision leaves its normalised name
AcceptedUnderManifestName ==
    /\ pc = "act" /\ check_result = "True"
    /\ LET seq == accept_file(fs, dirs, old_path,
                     target_name_single(fs, old_path, tasks[idx].file_name),
                     move_mode, FALSE)
           want == IF move_mode
                   THEN P(ValidDir, target_name_pool(fs, old_path,
                                                     tasks[idx].file_name))
                   ELSE WithName(old_path,
                                 target_name_pool(fs, old_path,
                                                  tasks[idx].file_name))
       IN  /\ last_op'.kind = seq.op.kind
           /\ last_op'.src = seq.op.src
           /\ last_op'.ok = seq.op.ok
           /\ last_op'.dst.dir = seq.op.dst.dir
           /\ last_op'.want = want
           /\ FreeCopyOf(fs, want, last_op'.dst)
    /\ valid_count' = valid_count + 1
    /\ outcome' = [outcome EXCEPT ![idx] = "accepted"]
    /\ pc' = NextPc /\ idx' = idx + 1

----------------------------------------------------------------------------
(* Manifests that name a source more than once *)

\* a photo and a video that are both to be called photo.jpg
DupEntries ==
    { e \in Entries : /\ e.file_name = PhotoName
                      /\ e.c \in {"jpeg_ok", "vid_ok"}
                      /\ e.src.ext # "" }

DupManifests == UNION { [1..n -> DupEntries] : n \in 0..MaxDupTasks }

\* rename_media_files of validate_media.py or validate_media_single.py on
\* such a manifest, ffprobe installed, nothing else in the directory
DupInit ==
    /\ rev \in {"pool", "single"}
    /\ mode = "json"
    /\ move_mode \in BOOLEAN
    /\ ffprobe = TRUE
    /\ pillow = TRUE
    /\ cv2 = TRUE
    /\ target_found = TRUE
    /\ manifest \in DupManifests
    /\ fs = InitFs(manifest, {})
    /\ dirs = {BaseDir}
    /\ tasks = <<>>
    /\ idx = 0
    /\ pc = "start"
    /\ old_path = NoPath
    /\ check_result = "None"
    /\ valid_count = 0
    /\ invalid_count = 0
    /\ skipped_timeout = 0
    /\ deleted_count = 0
    /\ hung = 0
    /\ faults = 0
    /\ outcome = <<>>
    /\ calls = <<>>
    /\ last_op = NoOp
    /\ jobs = <<>>

DupNext ==
    \/ Start
    \/ Classify
    \/ Validate
    \/ Act

SpecDup == DupInit /\ [][DupNext]_vars

\* the file the record at hand names: the one that was at its source path
\* when the run began
OwnFile == FirstIndex(manifest, tasks[idx].path.name)

\* C19 as the specification states it: in validate_media.py and
\* validate_media_single.py every rename, move or delete made while a
\* record is processed acts on that record's own file, so no file that was
\* renamed or moved for one record is touched for a later one.
C19_TouchedOnce ==
    [][ (/\ mode = "json" /\ rev \in {"pool", "single"}
         /\ pc \in {"classify", "act"}
         /\ last_op'.kind # "none" /\ last_op'.ok) =>
          fs[last_op'.src].id = OwnFile ]_vars

----------------------------------------------------------------------------
(* main(): the manifest or the directory to sweep *)

\* C21: when the manifest (with -c: the directory) is not there, main ends
\* with status 1 and has created no directory and renamed, moved or deleted
\* no file; when it is there and the loop comes to its end, the status is
\* 0 whatever was rejected or quarantined.
C21_ExitOnMissingTarget ==
    [][ /\ (pc = "start" /\ ~target_found) =>
              /\ sys_exit' = 1
              /\ dirs' = dirs /\ fs' = fs /\ last_op'.kind = "none"
        /\ (mode \in {"json", "cleanup"} /\ target_found /\ pc' = "done") =>
              sys_exit' = 0 ]_vars

\* a run ended on a manifest that is not there, other files lying in the
\* directory
C21_Witness ==
    /\ mode = "json" /\ ~target_found
    /\ pc = "exit_1"
    /\ DOMAIN fs # {}
    /\ dirs = { q.dir : q \in DOMAIN fs } \cup {BaseDir}

----------------------------------------------------------------------------
(* The directories of a run *)

\* C22: rename_media_files of validate_media.py and validate_media_single.py
\* makes, before its loop, valid/, invalid/ and timeout/ with -m and
\* timeout/ alone without; no later step makes a directory, and without -m
\* no file comes to lie in valid/ or invalid/.
C22_Layout ==
    [][ (mode = "json" /\ rev \in {"pool", "single"}) =>
          /\ (pc = "start" /\ target_found) =>
                dirs' = dirs \cup (IF move_mode
                                   THEN {ValidDir, InvalidDir, TimeoutDir}
                                   ELSE {TimeoutDir})
          /\ (pc # "start" \/ ~target_found) => dirs' = dirs
          /\ ~move_mode =>
                \A q \in DOMAIN fs' \ DOMAIN fs :
                    q.dir \notin {ValidDir, InvalidDir} ]_vars

\* a run without -m that accepted one file and rejected another: timeout/
\* is there, valid/ and invalid/ are not
C22_Witness ==
    /\ mode = "json" /\ rev \in {"pool", "single"} /\ ~move_mode
    /\ pc = "done"
    /\ \E i, j \in DOMAIN outcome :
          outcome[i] = "accepted" /\ outcome[j] = "rejected"
    /\ TimeoutDir \in dirs
    /\ ValidDir \notin dirs /\ InvalidDir \notin dirs

----------------------------------------------------------------------------
(* is_valid_video_ffprobe on its own *)

\* one call of is_valid_video_ffprobe on the file at old_path
Probe ==
    /\ pc = "norm" /\ mode = "norm"
    /\ check_result' = is_valid_video_ffprobe(fs, old_path)
    /\ pc' = "probed"
    /\ last_op' = NoOp
    /\ UNCHANGED <<cfgvars, jobs, fs, dirs, tasks, idx, old_path, counters, hung,
                   faults, outcome, calls>>

\* one call of the check on the file at old_path, no worker being lost:
\* _check_media_worker through is_valid_media in validate_media.py,
\* is_valid_media in validate_media_single.py
Check ==
    /\ pc = "norm" /\ mode = "norm"
    /\ LET c == is_valid_media(rev, fs, old_path, hung)
       IN  /\ pc' = IF c.res = "Hang" THEN "stuck" ELSE "checked"
           /\ check_result' = IF c.res = "Hang" THEN check_result ELSE c.res
    /\ hung' = IF rev = "pool" THEN pool_hung_after(fs, old_path, hung) ELSE hung
    /\ last_op' = NoOp
    /\ UNCHANGED <<cfgvars, jobs, fs, dirs, tasks, idx, old_path, counters, faults,
                   outcome, calls>>

ProbeNext == Probe \/ Check

SpecProbe == NormInit /\ [][ProbeNext]_vars

\* C23: is_valid_video_ffprobe answers True exactly when ffprobe ran, ended
\* with status 0 and listed a stream; None exactly when ffprobe is not
\* installed or ran into its deadline; False in every other case (status
\* not 0, no stream, output that is not JSON, another exception).
C23_FfprobeTriState ==
    pc = "probed" =>
        LET run == FfprobeRun(fs, old_path)
        IN  /\ check_result \in {"True", "False", "None"}
            /\ check_result = "True" <=> (ffprobe /\ run = "ok")
            /\ check_result = "None" <=> (~ffprobe \/ run = "timeout")
            /\ (ffprobe /\ run \in {"rc", "empty", "garbled", "raise"})
                  => check_result = "False"

\* ffprobe is installed and its output was not JSON: False
C23_Witness ==
    /\ pc = "probed" /\ ffprobe
    /\ FfprobeRun(fs, old_path) = "garbled"
    /\ check_result = "False"

----------------------------------------------------------------------------
(* What it takes to be accepted *)

\* C24 as the specification states it: in validate_media.py and
\* validate_media_single.py a file with image content is accepted only if
\* its pixel data decode (img.load() succeeds on it).
C24_DecodedBeforeAccepted ==
    [][ (/\ rev \in {"pool", "single"} /\ pc = "act"
         /\ outcome'[idx] = "accepted"
         /\ Exists(fs, old_path)
         /\ PillowFormat(fs[old_path].c) # "NONE") =>
          PillowLoad(fs[old_path].c) = "ok" ]_vars

----------------------------------------------------------------------------
(* Sniffing before the extension *)

\* the canonical extension of what Pillow finds in the file at old_path
Canonical == image_format_to_suffix(detect_image_format(fs, old_path))

\* C25: whatever the extension (validate_media_single.py: except .thm and
\* .thumb), a file in which Pillow finds a format with a canonical
\* extension other than its lower-cased suffix is renamed to
\* (oldext)stem.canonical, (NOEXT)stem.canonical when it has no suffix, at
\* the first free _k copy of that name, and the new path is returned.
C25_SniffFirst ==
    [][ (/\ mode = "norm" /\ pc = "norm"
         /\ ~(rev = "single" /\ Lower(Suffix(old_path)) \in {"thm", "thumb"})
         /\ Canonical # "NOMAP"
         /\ Canonical # Lower(Suffix(old_path))) =>
          LET want == WithName(old_path,
                         TaggedName(old_ext_clean(Lower(Suffix(old_path))),
                                    old_path.name, Canonical))
          IN  /\ last_op'.kind = "rename" /\ last_op'.ok
              /\ last_op'.src = old_path
              /\ last_op'.want = want
              /\ FreeCopyOf(fs, want, last_op'.dst)
              /\ pc' = "norm"
              /\ old_path' = last_op'.dst
              /\ ~Exists(fs', old_path)
              /\ Exists(fs', old_path') /\ fs'[old_path'] = fs[old_path] ]_vars

\* a JPEG under the extension of another image format was renamed, the
\* plain tagged name being taken: x.png is now (png)x_1.jpg
C25_Witness ==
    /\ mode = "norm" /\ pc = "norm" /\ idx = 1
    /\ last_op.kind = "rename" /\ last_op.ok
    /\ last_op.src.name.ext = "png"
    /\ old_path.name.tags = <<"png">>
    /\ old_path.name.ext = "jpg"
    /\ old_path.name.nums = <<1>>
    /\ Exists(fs, old_path)

----------------------------------------------------------------------------
(* Classification of videos *)

\* C26 as the specification states it: in validate_media.py and
\* validate_media_single.py the pre-normalisation of a file that holds no
\* image and has a video extension runs no ffprobe and hands the file,
\* unchanged, to the check: it is never rejected at this step.
C26_VideoByExtensionOnly ==
    [][ (/\ rev \in {"pool", "single"} /\ pc = "classify"
         /\ Exists(fs, tasks[idx].path)
         /\ detect_image_format(fs, tasks[idx].path) = "NONE"
         /\ Lower(Suffix(tasks[idx].path)) \in known_video_suffixes) =>
          /\ pc' = "validate"
          /\ old_path' = tasks[idx].path
          /\ calls'[idx].probe = calls[idx].probe
          /\ outcome' = outcome
          /\ fs' = fs ]_vars

----------------------------------------------------------------------------
(* Manifests with entries that cannot be used *)

MaxEntries == 3

\* two entries as they should be, and one for each thing an entry can lack
MalformedEntrySeq ==
    << [src |-> Nm("a", "jpg"), c |-> "jpeg_ok", file_name |-> PhotoName],
       [src |-> Nm("e", "jpg"), c |-> "jpeg_bad", file_name |-> EvidenceName],
       [src |-> Nm("", ""), c |-> "junk", file_name |-> PhotoName,
        lacks |-> "RelativeFilePath"],
       [src |-> Nm("k", "jpg"), c |-> "jpeg_ok", file_name |-> Nm("", ""),
        lacks |-> "MediaFiles"],
       [src |-> Nm("l", "jpg"), c |-> "jpeg_ok", file_name |-> Nm("", ""),
        lacks |-> "FileName"],
       [src |-> Nm("n", "jpg"), c |-> "jpeg_ok", file_name |-> PhotoName,
        lacks |-> "file"] >>

MalformedManifests ==
    UNION { [1..n -> { MalformedEntrySeq[k] : k \in 1..Len(MalformedEntrySeq) }] :
              n \in 0..MaxEntries }

\* rename_media_files on such a manifest, nothing else in the directory
ManifestInit ==
    /\ rev \in {"pool", "single", "log"}
    /\ mode = "json"
    /\ move_mode \in BOOLEAN
    /\ ffprobe = TRUE
    /\ pillow = TRUE
    /\ cv2 = TRUE
    /\ target_found = TRUE
    /\ manifest \in MalformedManifests
    /\ fs = InitFs(manifest, {})
    /\ dirs = {BaseDir}
    /\ tasks = <<>>
    /\ idx = 0
    /\ pc = "start"
    /\ old_path = NoPath
    /\ check_result = "None"
    /\ valid_count = 0
    /\ invalid_count = 0
    /\ skipped_timeout = 0
    /\ deleted_count = 0
    /\ hung = 0
    /\ faults = 0
    /\ outcome = <<>>
    /\ calls = <<>>
    /\ last_op = NoOp
    /\ jobs = <<>>

ManifestNext ==
    \/ Start
    \/ Classify
    \/ ClassifyLog
    \/ Validate
    \/ Act

SpecManifest == ManifestInit /\ [][ManifestNext]_vars

\* the entries that have a path, a file name and a file, in their order
RECURSIVE Usable(_)
Usable(m) ==
    IF m = <<>> THEN <<>>
    ELSE (IF Lacks(Head(m)) = "nothing" THEN <<Head(m)>> ELSE <<>>)
            \o Usable(Tail(m))

\* the tasks that came of the usable entries
Processed ==
    SelectSeq(tasks, LAMBDA t : \E i \in DOMAIN manifest :
                  /\ Lacks(manifest[i]) = "nothing"
                  /\ t.path = P(BaseDir, manifest[i].src))

\* C27: an entry without RelativeFilePath, without MediaFiles, without
\* FileName or without a file is passed over: no task is made of it (in
\* validate_media_log.py an entry without a file is looked up and left),
\* no file is touched for it, the run does not stop on it, and the entries
\* before and after it are processed in their order.
C27_MalformedSkipped ==
    (mode = "json" /\ pc \notin {"start", "crashed"}) =>
        \* the usable entries, all of them and in order
        /\ Processed =
              [i \in DOMAIN Usable(manifest) |->
                  Task(P(BaseDir, Usable(manifest)[i].src),
                       Usable(manifest)[i].file_name)]
        \* nothing else, but for the entries without a file in the oldest
        \* revision, which finds them missing
        /\ \A i \in DOMAIN tasks :
              \/ \E j \in DOMAIN Processed : Processed[j] = tasks[i]
              \/ /\ rev = "log"
                 /\ \E j \in DOMAIN manifest :
                       /\ Lacks(manifest[j]) = "file"
                       /\ tasks[i].path = P(BaseDir, manifest[j].src)
                 /\ outcome[i] \in {"none", "notfound"}
        \* the files of the entries passed over lie where they lay
        /\ \A j \in DOMAIN manifest :
              /\ Lacks(manifest[j]) \in {"MediaFiles", "FileName"} =>
                    /\ Exists(fs, P(BaseDir, manifest[j].src))
                    /\ fs[P(BaseDir, manifest[j].src)].c = manifest[j].c
              /\ Lacks(manifest[j]) = "file" =>
                    ~Exists(fs, P(BaseDir, manifest[j].src))
        \* and at the end every task has been decided
        /\ pc = "done" => \A i \in DOMAIN tasks : outcome[i] # "none"

\* a run that ended: a usable entry before and one after an entry without
\* FileName, both decided
C27_Witness ==
    /\ mode = "json" /\ rev = "pool" /\ pc = "done"
    /\ Len(manifest) = 3
    /\ Lacks(manifest[1]) = "nothing"
    /\ Lacks(manifest[2]) = "FileName"
    /\ Lacks(manifest[3]) = "nothing"
    /\ Len(tasks) = 2
    /\ outcome = <<"accepted", "rejected">>

----------------------------------------------------------------------------
(* Invalid files *)

\* C28: a file on which is_valid_media returned False is counted in
\* invalid_count, once, and, the operation succeeding, is deleted without
\* -m (it lies at no path afterwards) and moved with -m to the first free
\* _k copy of its current name in invalid/, nothing else being touched.
C28_InvalidRejected ==
    [][ (/\ mode = "json" /\ pc = "act" /\ check_result = "False"
         /\ Exists(fs, old_path)
         /\ faults' = faults) =>
          /\ invalid_count' = invalid_count + 1
          /\ valid_count' = valid_count
          /\ skipped_timeout' = skipped_timeout
          /\ outcome'[idx] = "rejected"
          /\ last_op'.ok /\ last_op'.src = old_path
          /\ ~Exists(fs', old_path)
          /\ IF move_mode
             THEN /\ last_op'.kind = "move"
                  /\ last_op'.want = P(InvalidDir, old_path.name)
                  /\ FreeCopyOf(fs, last_op'.want, last_op'.dst)
                  /\ DOMAIN fs' = (DOMAIN fs \ {old_path}) \cup {last_op'.dst}
                  /\ fs'[last_op'.dst] = fs[old_path]
                  /\ \A q \in DOMAIN fs \ {old_path} : fs'[q] = fs[q]
             ELSE /\ last_op'.kind = "unlink"
                  /\ DOMAIN fs' = DOMAIN fs \ {old_path}
                  /\ \A q \in DOMAIN fs' : fs'[q] = fs[q]
                  /\ fs[old_path].id \notin FileIds(fs') ]_vars

\* with -m, a file that failed its check has just been moved to invalid/
C28_Witness ==
    /\ mode = "json" /\ move_mode
    /\ idx >= 2 /\ outcome[idx - 1] = "rejected"
    /\ calls[idx - 1].valid = 1
    /\ check_result = "False"
    /\ last_op.kind = "move" /\ last_op.ok
    /\ last_op.dst.dir = InvalidDir
    /\ Exists(fs, last_op.dst)
    /\ invalid_count >= 1

----------------------------------------------------------------------------
(* A sweep over a directory that has a timeout/ *)

\* what an earlier run left in timeout/
QuarantinedNames == { Nm("q", e) : e \in {"jpg", "mp4", ""} }

\* cleanup_directory on a directory with one file, in timeout/ or not, and,
\* or not, a photo beside it
SweepInit ==
    /\ rev \in {"pool", "single", "log"}
    /\ mode = "cleanup"
    /\ move_mode = FALSE
    /\ ffprobe \in BOOLEAN
    /\ pillow = TRUE
    /\ cv2 = TRUE
    /\ target_found = TRUE
    /\ manifest = <<>>
    /\ \E n \in QuarantinedNames, c \in Contents, beside \in BOOLEAN,
          d \in {TimeoutDir, BaseDir} :
         fs = [ q \in {P(d, n)}
                        \cup (IF beside THEN {P(BaseDir, PhotoName)} ELSE {}) |->
                  IF q = P(d, n) THEN [c |-> c, id |-> 1]
                  ELSE [c |-> "jpeg_ok", id |-> 2] ]
    /\ dirs = {BaseDir, TimeoutDir}
    /\ tasks = <<>>
    /\ idx = 0
    /\ pc = "start"
    /\ old_path = NoPath
    /\ check_result = "None"
    /\ valid_count = 0
    /\ invalid_count = 0
    /\ skipped_timeout = 0
    /\ deleted_count = 0
    /\ hung = 0
    /\ faults = 0
    /\ outcome = <<>>
    /\ calls = <<>>
    /\ last_op = NoOp
    /\ jobs = <<>>

\* cleanup_directory of validate_media_log.py: the next file of
\* directory.rglob("*"); there is no pre-normalisation
NextFileLog ==
    /\ pc = "classify" /\ mode = "cleanup" /\ rev = "log"
    /\ old_path' = tasks[idx].path
    /\ pc' = "validate"
    /\ last_op' = NoOp
    /\ UNCHANGED <<cfgvars, jobs, fs, dirs, tasks, idx, check_result, counters,
                   hung, faults, outcome, calls>>

SweepNext ==
    \/ Start
    \/ ClassifyCleanup
    \/ NextFileLog
    \/ Validate
    \/ ActCleanup

SpecSweep == SweepInit /\ [][SweepNext]_vars

\* C29 as the specification states it: no step deletes a file that lies
\* under timeout/.
C29_QuarantineKept ==
    [][ \A q \in DOMAIN fs :
            q.dir = TimeoutDir => fs[q].id \in FileIds(fs') ]_vars

----------------------------------------------------------------------------
(* Exceptions in the check *)

\* the check of the file at old_path raises: Image.open or img.load() on a
\* file with an image extension, or the ffprobe call or the reading of its
\* output on a file with a video extension
Raises ==
    LET suffix == Lower(Suffix(old_path))
        c == fs[old_path].c
    IN  \/ /\ suffix \in known_image_suffixes
           /\ PillowFormat(c) = "NONE" \/ PillowLoad(c) = "raise"
        \/ /\ suffix \in known_video_suffixes
           /\ ffprobe
           /\ FfprobeRun(fs, old_path) \in {"raise", "garbled"}

----------------------------------------------------------------------------
(* The worker pool of validate_media.py step by step: apply_async hands a  *)
(* call to the Pool, a free worker takes the oldest call waiting and runs  *)
(* _check_media_worker, and async_result.get(timeout) returns the result   *)
(* of its own call or gives up.  A job is [task, path, state, res, waited, *)
(* timed_out]; state is "queued", "running" or "done".                     *)

Job(i, p) == [task |-> i, path |-> p, state |-> "queued", res |-> "none",
              waited |-> TRUE, timed_out |-> FALSE]

\* the jobs after get() gave up on job j; a variant that hands the call in
\* again
timed_out_job_retried(J, j) ==
    Append([J EXCEPT ![j].waited = FALSE, ![j].timed_out = TRUE],
           [Job(J[j].task, J[j].path) EXCEPT !.waited = FALSE])

\* except MPTimeoutError: result = None; the call stays with the pool
timed_out_job(J, j) == [J EXCEPT ![j].waited = FALSE, ![j].timed_out = TRUE]

\* a variant of get() that takes the first result the pool has
latest_result(J, i) ==
    IF \E k \in DOMAIN J : J[k].state = "done"
    THEN CHOOSE j \in DOMAIN J :
            /\ J[j].state = "done"
            /\ \A k \in DOMAIN J : J[k].state = "done" => j <= k
    ELSE CHOOSE j \in DOMAIN J : J[j].task = i /\ J[j].waited

\* the ApplyResult that is_valid_media holds: the job of its own
\* apply_async call
awaited_result(J, i) == CHOOSE j \in DOMAIN J : J[j].task = i /\ J[j].waited

PoolInit == Init /\ rev = "pool" /\ mode = "json" /\ target_found

\* async_result = pool.apply_async(_check_media_worker, (path,))
ApplyAsync ==
    /\ pc = "validate" /\ rev = "pool"
    /\ jobs' = Append(jobs, Job(idx, old_path))
    /\ pc' = "await"
    /\ calls' = [calls EXCEPT ![idx].valid = @ + 1]
    /\ last_op' = NoOp
    /\ UNCHANGED <<cfgvars, fs, dirs, tasks, idx, old_path, check_result,
                   counters, hung, faults, outcome>>

\* a free worker process takes the oldest call in the queue
WorkerTake ==
    /\ \E j \in DOMAIN jobs :
        /\ jobs[j].state = "queued"
        /\ \A k \in 1..(j - 1) : jobs[k].state # "queued"
        /\ Cardinality({k \in DOMAIN jobs : jobs[k].state = "running"})
               < _calc_workers
        /\ jobs' = [jobs EXCEPT ![j].state = "running"]
    /\ last_op' = NoOp
    /\ UNCHANGED <<cfgvars, fs, dirs, tasks, idx, pc, old_path, check_result,
                   counters, hung, faults, outcome, calls>>

\* the worker comes back from _check_media_worker(path) with what the file
\* at path is at that moment; a call that hangs never comes back
WorkerReturn ==
    /\ \E j \in DOMAIN jobs :
        /\ jobs[j].state = "running"
        /\ _check_media_worker(fs, jobs[j].path).res # "Hang"
        /\ jobs' = [jobs EXCEPT ![j].state = "done",
                                ![j].res =
                                    _check_media_worker(fs, jobs[j].path).res]
    /\ last_op' = NoOp
    /\ UNCHANGED <<cfgvars, fs, dirs, tasks, idx, pc, old_path, check_result,
                   counters, hung, faults, outcome, calls>>

\* result = async_result.get(timeout=timeout), the result is there
Get ==
    /\ pc = "await"
    /\ LET j == awaited_result(jobs, idx)
       IN  /\ jobs[j].state = "done"
           /\ check_result' = jobs[j].res
           /\ jobs' = [jobs EXCEPT ![awaited_result(jobs, idx)].waited = FALSE]
    /\ pc' = "act"
    /\ last_op' = NoOp
    /\ UNCHANGED <<cfgvars, fs, dirs, tasks, idx, old_path, counters, hung,
                   faults, outcome, calls>>

\* get() raises MPTimeoutError: MEDIA_CHECK_TIMEOUT seconds went by and the
\* result is not there
GetTimeout ==
    /\ pc = "await"
    /\ LET j == awaited_result(jobs, idx)
       IN  /\ jobs[j].state # "done"
           /\ jobs' = timed_out_job(jobs, j)
    /\ check_result' = "None"
    /\ calls' = [calls EXCEPT ![idx].indet = TRUE]
    /\ pc' = "act"
    /\ last_op' = NoOp
    /\ UNCHANGED <<cfgvars, fs, dirs, tasks, idx, old_path, counters, hung,
                   faults, outcome>>

PoolNext ==
    \/ Start
    \/ Classify
    \/ ApplyAsync
    \/ WorkerTake
    \/ WorkerReturn
    \/ Get
    \/ GetTimeout
    \/ Act

SpecPool == PoolInit /\ [][PoolNext]_vars

----------------------------------------------------------------------------
(* One submission per task *)

JobsOf(i) == { j \in DOMAIN jobs : jobs[j].task = i }

\* C31: in a run of validate_media.py each collected task is handed to the
\* pool at most once, is_valid_media waits for at most one call at a time,
\* and a call whose deadline expired is not handed in again.
C31_OneSubmissionPerTask ==
    /\ \A i \in DOMAIN tasks : Cardinality(JobsOf(i)) <= 1
    /\ Cardinality({ j \in DOMAIN jobs : jobs[j].waited }) <= 1
    /\ \A j \in DOMAIN jobs :
          jobs[j].timed_out =>
              \A k \in DOMAIN jobs : k # j => jobs[k].task # jobs[j].task

\* the first call timed out and is still with the pool while the second
\* task's call is waited for
C31_Witness ==
    /\ Len(jobs) = 2 /\ pc = "await" /\ idx = 2
    /\ jobs[1].timed_out /\ jobs[1].state # "done"
    /\ jobs[2].waited /\ ~jobs[1].waited

----------------------------------------------------------------------------
(* The order of the steps *)

\* the tasks are entries of the manifest, in the manifest's order
InManifestOrder ==
    \E f \in [DOMAIN tasks -> DOMAIN manifest] :
        /\ \A i, j \in DOMAIN tasks : i < j => f[i] < f[j]
        /\ \A i \in DOMAIN tasks :
              /\ tasks[i].path = P(BaseDir, manifest[f[i]].src)
              /\ tasks[i].file_name = manifest[f[i]].file_name

\* this step is a step of task i
StepOf(i) == calls'[i] # calls[i] \/ outcome'[i] # outcome[i]

\* C32: validate_media.py and validate_media_single.py take the tasks in
\* the manifest's order; a step is a step of the task the loop is at, no
\* earlier task is unfinished and no later task has been begun; a task is
\* classified once, validated after that, and acted on after that.
C32_OneTaskAtATime ==
    [][ (mode = "json" /\ rev \in {"pool", "single"}) =>
          /\ InManifestOrder'
          /\ \A i \in DOMAIN tasks :
                StepOf(i) =>
                  /\ i = idx
                  /\ \A k \in 1..(i - 1) : outcome[k] # "none"
                  /\ \A k \in (i + 1)..Len(tasks) :
                        /\ outcome[k] = "none"
                        /\ calls[k].detect = 0 /\ calls[k].valid = 0
                  /\ outcome[i] = "none"
                  /\ calls'[i].detect # calls[i].detect =>
                        calls[i].detect = 0 /\ calls[i].valid = 0
                  /\ calls'[i].valid # calls[i].valid =>
                        calls[i].detect = 1 /\ calls[i].valid = 0
                  /\ (outcome'[i] # "none" /\ calls'[i] = calls[i]) =>
                        calls[i].detect = 1 /\ calls[i].valid = 1 ]_vars

\* the second of two different entries has been validated, the first is
\* finished
C32_Witness ==
    /\ mode = "json" /\ rev \in {"pool", "single"}
    /\ Len(tasks) = 2 /\ tasks[1] # tasks[2]
    /\ idx = 2 /\ pc = "act"
    /\ outcome[1] # "none" /\ outcome[2] = "none"
    /\ calls[2].detect = 1 /\ calls[2].valid = 1

----------------------------------------------------------------------------
(* A valid file that already has its target name *)

\* C33: without -m, a valid file whose target name is the name it has is
\* left where it is, under that name.
C33_OwnNameKept ==
    [][ (/\ pc = "act" /\ mode = "json" /\ ~move_mode
         /\ check_result = "True"
         /\ Exists(fs, old_path)
         /\ target_name(rev, fs, old_path, tasks[idx].file_name)
                = old_path.name)
        => fs' = fs ]_vars

----------------------------------------------------------------------------
(* next_free_name on its own: one call, in a directory where some of the   *)
(* names photo.jpg, photo_1.jpg, ..., photo_MaxNumbered.jpg are taken      *)

MaxNumbered == 5

NumberedPaths ==
    {P(ValidDir, PhotoName)}
        \cup { Candidate(P(ValidDir, PhotoName), k) : k \in 1..MaxNumbered }

NameInit ==
    /\ rev \in {"pool", "single", "log"}
    /\ mode = "name"
    /\ move_mode = TRUE
    /\ ffprobe = TRUE
    /\ pillow = TRUE
    /\ cv2 = TRUE
    /\ target_found = TRUE
    /\ manifest = <<>>
    /\ old_path = P(ValidDir, PhotoName)
    /\ \E taken \in SUBSET NumberedPaths :
         fs = [ q \in taken |-> [c |-> "jpeg_ok", id |-> 0 - 1] ]
    /\ dirs = {BaseDir, ValidDir}
    /\ tasks = <<>>
    /\ idx = 0
    /\ pc = "name"
    /\ check_result = "None"
    /\ valid_count = 0
    /\ invalid_count = 0
    /\ skipped_timeout = 0
    /\ deleted_count = 0
    /\ hung = 0
    /\ faults = 0
    /\ outcome = <<>>
    /\ calls = <<>>
    /\ last_op = NoOp
    /\ jobs = <<>>

\* dest = next_free_name(desired_dest)
Resolve ==
    /\ pc = "name" /\ mode = "name"
    /\ pc' = "named"
    /\ last_op' = [NoOp EXCEPT !.want = old_path,
                               !.dst = next_free_name(fs, old_path)]
    /\ UNCHANGED <<cfgvars, jobs, fs, dirs, tasks, idx, old_path, check_result,
                   counters, hung, faults, outcome, calls>>

NameNext == Resolve

SpecName == NameInit /\ [][NameNext]_vars

\* C34: the counter of next_free_name stays within a cap: there is a cap
\* such that the name returned is the path itself or one of its numbered
\* names up to the cap.
C34_CounterCapped ==
    (mode = "name" /\ pc = "named") =>
        \E cap \in 1..MaxNumbered :
            last_op.dst \in
                {old_path} \cup { Candidate(old_path, k) : k \in 1..cap }

----------------------------------------------------------------------------
(* Late results *)

\* job j, given up by get(), comes back in this step
LateReturn(j) ==
    jobs[j].timed_out /\ jobs[j].state # "done" /\ jobs'[j].state = "done"

\* C35: in validate_media.py the result is_valid_media returns for a file
\* is the result of the call made for that file, and a call that comes back
\* after its deadline changes neither a result or outcome already recorded
\* nor a counter nor a file.
C35_OwnResult ==
    [][ /\ (pc = "await" /\ pc' = "act" /\ check_result' # "None") =>
              /\ check_result' = _check_media_worker(fs, old_path).res
              /\ \E j \in JobsOf(idx) :
                    /\ jobs[j].path = old_path
                    /\ jobs[j].state = "done"
                    /\ jobs[j].res = check_result'
        /\ \A j \in DOMAIN jobs :
              LateReturn(j) =>
                  UNCHANGED <<check_result, outcome, counters, fs, idx, pc>>
      ]_vars

\* the first call came back late with another result than the second
\* file's, and the second file has its own result
C35_Witness ==
    /\ Len(jobs) = 2 /\ idx = 2 /\ pc = "act"
    /\ jobs[1].timed_out /\ jobs[1].state = "done"
    /\ jobs[2].state = "done" /\ ~jobs[2].timed_out
    /\ jobs[1].res # jobs[2].res
    /\ check_result = jobs[2].res
    /\ outcome[1] = "quarantined"

----------------------------------------------------------------------------
(* Nothing is deleted with -m *)

PathsOfFile(F, id) == { q \in DOMAIN F : F[q].id = id }

\* C36: with -m no step of rename_media_files deletes a file: the number of
\* files under base_dir stays what it was, and each file is found at
\* exactly one path before and after the step.
C36_MoveKeepsFiles ==
    [][ (mode = "json" /\ move_mode) =>
          /\ Cardinality(DOMAIN fs') = Cardinality(DOMAIN fs)
          /\ FileIds(fs') = FileIds(fs)
          /\ \A id \in FileIds(fs) :
                /\ Cardinality(PathsOfFile(fs, id)) = 1
                /\ Cardinality(PathsOfFile(fs', id)) = 1 ]_vars

\* a run with -m that rejected one file and quarantined another
C36_Witness ==
    /\ mode = "json" /\ move_mode /\ pc = "done"
    /\ Count("rejected") = 1 /\ Count("quarantined") = 1
    /\ Cardinality(DOMAIN fs) >= 2
    /\ \E q \in DOMAIN fs : q.dir = InvalidDir
    /\ \E q \in DOMAIN fs : q.dir = TimeoutDir /\ fs[q].id > 0

----------------------------------------------------------------------------
(* What a sweep does to a file *)

\* the files this step takes off the disk
Removed == FileIds(fs) \ FileIds(fs')

\* C37: cleanup_directory deletes a file only when its pre-normalisation
\* returned None or its check returned False; a file found valid stays at
\* its normalised path; a file whose check returned None is moved to
\* timeout/; deleted_count goes up by one with each unlink that succeeds
\* and not otherwise.
C37_SweepEffects ==
    [][ mode = "cleanup" =>
          /\ Cardinality(Removed) <= 1
          /\ deleted_count' = deleted_count + Cardinality(Removed)
          /\ Removed # {} =>
                /\ last_op'.kind = "unlink" /\ last_op'.ok
                /\ \/ /\ pc = "classify" /\ rev # "log"
                      /\ Removed = {fs[tasks[idx].path].id}
                      /\ detect_media_and_normalize_suffix(
                             rev, fs, dirs, tasks[idx].path, FALSE).none
                   \/ /\ pc = "act" /\ check_result = "False"
                      /\ Removed = {fs[old_path].id}
          /\ (pc = "act" /\ check_result = "True") =>
                fs' = fs /\ Exists(fs, old_path)
          /\ (pc = "act" /\ check_result = "None" /\ faults' = faults) =>
                \E q \in DOMAIN fs' :
                    /\ q.dir = TimeoutDir
                    /\ ~Exists(fs', old_path) \/ q = old_path
                    /\ fs'[q] = fs[old_path]
                    /\ FreeCopyOf(fs, P(TimeoutDir, old_path.name), q) ]_vars

\* a sweep that deleted one file and left a valid one where it was
C37_Witness ==
    /\ mode = "cleanup" /\ pc = "done" /\ Len(tasks) = 2
    /\ deleted_count = 1
    /\ Count("accepted") = 1
    /\ Cardinality(DOMAIN fs) = 1
    /\ Exists(fs, P(BaseDir, PhotoName))

----------------------------------------------------------------------------
(* File names with directory parts *)

UpName == [tags |-> <<>>, base |-> "photo", nums |-> <<>>, ext |-> "jpg",
           parts |-> <<"..">>]

SubName == [tags |-> <<>>, base |-> "photo", nums |-> <<>>, ext |-> "jpg",
            parts |-> <<"sub">>]

\* entries whose FileName is "../photo.jpg" or "sub/photo.jpg", and one
\* with a plain name
PartedEntrySeq ==
    << [src |-> Nm("a", "jpg"), c |-> "jpeg_ok",  file_name |-> PhotoName],
       [src |-> Nm("u", "jpg"), c |-> "jpeg_ok",  file_name |-> UpName],
       [src |-> Nm("s", "jpg"), c |-> "jpeg_ok",  file_name |-> SubName],
       [src |-> Nm("e", "jpg"), c |-> "jpeg_bad", file_name |-> UpName],
       [src |-> Nm("f", "png"), c |-> "png_hang", file_name |-> SubName],
       [src |-> Nm("g", ""),    c |-> "png_ok",   file_name |-> UpName] >>

PartedManifests ==
    UNION { [1..n -> { PartedEntrySeq[k] : k \in 1..Len(PartedEntrySeq) }] :
              n \in 0..MaxTasks }

\* rename_media_files with -m on such a manifest
PartedInit ==
    /\ rev \in {"pool", "single", "log"}
    /\ mode = "json"
    /\ move_mode = TRUE
    /\ ffprobe = TRUE
    /\ pillow = TRUE
    /\ cv2 = TRUE
    /\ target_found = TRUE
    /\ manifest \in PartedManifests
    /\ fs = InitFs(manifest, {})
    /\ dirs = {BaseDir}
    /\ tasks = <<>>
    /\ idx = 0
    /\ pc = "start"
    /\ old_path = NoPath
    /\ check_result = "None"
    /\ valid_count = 0
    /\ invalid_count = 0
    /\ skipped_timeout = 0
    /\ deleted_count = 0
    /\ hung = 0
    /\ faults = 0
    /\ outcome = <<>>
    /\ calls = <<>>
    /\ last_op = NoOp
    /\ jobs = <<>>

PartedNext ==
    \/ Start
    \/ Classify
    \/ ClassifyLog
    \/ Validate
    \/ Act

SpecParted == PartedInit /\ [][PartedNext]_vars

\* C38: with -m, an accepted file ends as a direct child of valid/, a
\* rejected one of invalid/ and a quarantined one of timeout/, whatever the
\* manifest's FileName is; no file is moved anywhere else.
C38_InsideThreeDirs ==
    [][ (mode = "json" /\ move_mode /\ faults' = faults) =>
          /\ last_op'.kind = "move" =>
                last_op'.dst.dir \in {ValidDir, InvalidDir, TimeoutDir}
          /\ pc = "act" =>
                /\ last_op'.kind = "move" /\ last_op'.ok
                /\ last_op'.dst.dir =
                       CASE check_result = "True" -> ValidDir
                         [] check_result = "False" -> InvalidDir
                         [] OTHER -> TimeoutDir ]_vars

====
